---- MODULE Spec2Model ----
(***************************************************************************)
(* Model of the xhs-toolkit MCP server: the TaskManager job registry, the  *)
(* background publish pipeline MCPServer._execute_publish_task running as  *)
(* asyncio tasks on one event loop, the job query tools, and the           *)
(* XHSPublisher component pipeline with its content filler.                *)
(*                                                                         *)
(* Python's None is modelled as the empty sequence and a supplied value x  *)
(* as <<x>>.  A dict is a record with the set of its keys.                 *)
(***************************************************************************)
EXTENDS Integers, Sequences, FiniteSets, TLC

VARIABLES
    now,            \* time.time(), a positive integer clock
    cookieFile,     \* the persisted CredentialSet: [exists, cookies]
    tasks,          \* TaskManager.tasks: task_id -> PublishTask
    running_tasks,  \* TaskManager.running_tasks: ids with a registered asyncio.Task
    cancelled,      \* ids whose asyncio.Task had cancel() called
    pc,             \* position of each job's _execute_publish_task coroutine
    cur,            \* the coroutine holding the event loop between two awaits, or 0
    driver,         \* per job: "none" | "open", the browser created by create_driver
    trace,          \* per job: history of status reports and stage work, in order
    swallowed,      \* per job: stage operations whose failure was logged and ignored
    gate,           \* per job: what the credential gate says when stage 0 runs
    evictBit,       \* flips on every remove_old_tasks call
    evictArg,       \* max_age_seconds of the last remove_old_tasks call
    call,           \* registry API harness: the last TaskManager call and its arguments
    pub,            \* one XHSPublisher.publish_note run
    auth,           \* SmartAuthServer: the verdict of its last check_auth_status
    login,          \* one CookieManager._wait_for_login_completion run
    upl,            \* one XHSFileUploader._wait_for_upload_completion run
    ver,            \* the editor after a topic was typed, and the verdicts of the two verifiers
    client,         \* the XHSClient instance each job's pipeline holds in its local variable client
    coll,           \* the data-collection run of the scheduler
    save,           \* the cookies file under CookieManager._save_cookies_to_file
    vid,            \* XHSClient._wait_for_video_upload_complete
    batch,          \* AdvancedXHSTopicAutomation.batch_process_with_retry
    fill,           \* the read-back check of XHSContentFiller title and content fills
    jsn             \* the image list built from a JSON item

vars == <<now, cookieFile, tasks, running_tasks, cancelled, pc, cur, driver,
          trace, swallowed, gate, evictBit, evictArg, call, pub, auth, login, upl, ver, client, coll, save, vid, batch, fill, jsn>>

-----------------------------------------------------------------------------
(* Bounds of the model *)

MaxJobs == 2
MaxTime == 2
MaxChecks == 2
MaxRuns == 2
MaxGateTime == 4

JobIds == 1..MaxJobs

\* no coroutine holds the event loop
NoJob == 0
NoClient == 0

None == <<>>
Some(x) == <<x>>

Terminal == {"completed", "failed"}

-----------------------------------------------------------------------------
(* The note draft.  Callers read note.images, note.videos and note.topics. *)

Notes == {[media |-> m] : m \in {"text", "images", "videos"}}

has_images(note) == note.media = "images"
has_videos(note) == note.media = "videos"

-----------------------------------------------------------------------------
(* Result payloads (dicts) *)

Dict(ks, ok, et) == [keys |-> ks, success |-> ok, error_type |-> et]

EmptyDict == Dict({}, FALSE, "")

ErrorResult(et) == Dict({"success", "error_type"}, FALSE, et)

\* the result the outer handler of _execute_publish_task stores
OuterErrorResult == Dict({"success", "message"}, FALSE, "")

\* XHSPublishResult.to_dict(): error_type is present with value None
PublishResultDict(ok) == Dict({"success", "message", "note_title", "final_url", "error_type"}, ok, "null")

-----------------------------------------------------------------------------
(* TaskManager *)

PublishTask(id, note, t) ==
    [task_id |-> id, status |-> "pending", note |-> note, progress |-> 0,
     message |-> "created", result |-> None, start_time |-> Some(t), end_time |-> None]

create_task(ts, id, note, t) ==
    [i \in DOMAIN ts \cup {id} |-> IF i = id THEN PublishTask(id, note, t) ELSE ts[i]]

get_task(ts, id) == IF id \in DOMAIN ts THEN Some(ts[id]) ELSE None

\* Python truthiness of an optional str / dict argument
TruthyStr(o) == o # None /\ o[1] # ""
TruthyDict(o) == o # None /\ o[1].keys # {}

update_taskBadStatus(ts, id, status, progress, message, result, t) ==
    IF id \in DOMAIN ts
    THEN [ts EXCEPT ![id] =
            [@ EXCEPT !.status   = IF TruthyStr(status) THEN status[1] ELSE "pending",
                      !.progress = IF progress # None THEN progress[1] ELSE @,
                      !.message  = IF TruthyStr(message) THEN message[1] ELSE "",
                      !.result   = IF TruthyDict(result) THEN result ELSE @,
                      !.end_time = IF status # None /\ status[1] \in Terminal THEN Some(t) ELSE @]]
    ELSE ts

update_taskNoStamp(ts, id, status, progress, message, result, t) ==
    IF id \in DOMAIN ts
    THEN [ts EXCEPT ![id] =
            [@ EXCEPT !.status   = IF TruthyStr(status) THEN status[1] ELSE @,
                      !.progress = IF progress # None THEN progress[1] ELSE @,
                      !.message  = IF TruthyStr(message) THEN message[1] ELSE @,
                      !.result   = IF TruthyDict(result) THEN result ELSE @]]
    ELSE ts

update_taskUpserts(ts, id, status, progress, message, result, t) ==
    update_taskBadStatus(create_task(ts, id, [media |-> "text"], t), id, status, progress,
                         message, result, t)

update_task(ts, id, status, progress, message, result, t) ==
    IF id \in DOMAIN ts
    THEN [ts EXCEPT ![id] =
            [@ EXCEPT !.status   = IF TruthyStr(status) THEN status[1] ELSE @,
                      !.progress = IF progress # None THEN progress[1] ELSE @,
                      !.message  = IF TruthyStr(message) THEN message[1] ELSE @,
                      !.result   = IF TruthyDict(result) THEN result ELSE @,
                      !.end_time = IF status # None /\ status[1] \in Terminal THEN Some(t) ELSE @]]
    ELSE ts

\* ids that remove_old_tasks collects into expired_tasks
expired_tasksByStart(ts, current_time, max_age_seconds) ==
    {i \in DOMAIN ts : ts[i].start_time # None
                       /\ (current_time - ts[i].start_time[1]) > max_age_seconds}

expired_tasks(ts, current_time, max_age_seconds) ==
    {i \in DOMAIN ts : ts[i].end_time # None
                       /\ (current_time - ts[i].end_time[1]) > max_age_seconds}

Remove(ts, ids) == [i \in DOMAIN ts \ ids |-> ts[i]]

-----------------------------------------------------------------------------
(* The persisted CredentialSet and the credential gate (SmartAuthServer) *)

Cookie(n, e) == [name |-> n, expiry |-> e]

CRITICAL_CREATOR_COOKIES ==
    <<"web_session", "a1", "gid", "webId", "customer-sso-sid",
      "x-user-id-creator.xiaohongshu.com", "access-token-creator.xiaohongshu.com",
      "galaxy_creator_session_id", "galaxy.creator.beaker.session.id">>

CriticalNames == {CRITICAL_CREATOR_COOKIES[i] : i \in DOMAIN CRITICAL_CREATOR_COOKIES}

\* CRITICAL_CREATOR_COOKIES[:4]
BasicNames == {CRITICAL_CREATOR_COOKIES[i] : i \in 1..4}

\* SmartAuthServer._cache_duration, in clock ticks
_cache_duration == 2

_validate_cookies_detailedMissingFirst(cookies, current_time) ==
    LET found_critical == {c.name : c \in {d \in cookies : d.name \in CriticalNames}}
        expired_cookies == {c.name : c \in {d \in cookies :
                                /\ d.name \in CriticalNames
                                /\ d.expiry # None
                                /\ d.expiry[1] < current_time}}
        missing_critical == BasicNames \ found_critical
    IN  IF Cardinality(missing_critical) > 2 THEN "invalid"
        ELSE IF expired_cookies # {} THEN "expired"
        ELSE "valid"

\* LoginStatus of _validate_cookies_detailed for a non-empty cookie list
_validate_cookies_detailed(cookies, current_time) ==
    LET found_critical == {c.name : c \in {d \in cookies : d.name \in CriticalNames}}
        expired_cookies == {c.name : c \in {d \in cookies :
                                /\ d.name \in CriticalNames
                                /\ d.expiry # None
                                /\ d.expiry[1] # 0
                                /\ d.expiry[1] < current_time}}
        missing_critical == BasicNames \ found_critical
    IN  IF expired_cookies # {} THEN "expired"
        ELSE IF Cardinality(missing_critical) > 2 THEN "invalid"
        ELSE "valid"

\* must_have_cookies of CookieManager.validate_cookies
must_have_cookies == {"a1", "webId", "galaxy_creator_session_id",
                      "galaxy.creator.beaker.session.id", "gid"}

\* CookieManager.validate_cookies on the saved file: False without a file,
\* otherwise no critical cookie expired and at most two must-have names missing
validate_cookies(file, current_time) ==
    IF ~file.exists THEN FALSE
    ELSE LET found_cookies == {c.name : c \in {d \in file.cookies : d.name \in CriticalNames}}
             missing == must_have_cookies \ found_cookies
             expired_critical_cookies ==
                 {c.name : c \in {d \in file.cookies :
                                     /\ d.expiry # None
                                     /\ d.expiry[1] # 0
                                     /\ d.expiry[1] < current_time
                                     /\ d.name \in CriticalNames}}
         IN  expired_critical_cookies = {} /\ Cardinality(missing) <= 2

\* LoginStatus computed by check_auth_status (cache bypassed)
check_auth_status(file, current_time) ==
    IF ~file.exists THEN "missing"
    ELSE IF file.cookies = {} THEN "missing"
    ELSE _validate_cookies_detailed(file.cookies, current_time)

\* Credential sets a deployment can hold: no file, an empty file, a set whose
\* session cookie expires at time 1, a set lacking three basic names, a full set.
CredentialSamples ==
    { [exists |-> FALSE, cookies |-> {}],
      [exists |-> TRUE,  cookies |-> {}],
      [exists |-> TRUE,  cookies |-> {Cookie("web_session", Some(1)), Cookie("a1", None),
                                      Cookie("gid", None), Cookie("webId", None)}],
      [exists |-> TRUE,  cookies |-> {Cookie("web_session", None), Cookie("xsecappid", None)}],
      [exists |-> TRUE,  cookies |-> {Cookie("web_session", None), Cookie("a1", None),
                                      Cookie("gid", None), Cookie("webId", None)}] }

-----------------------------------------------------------------------------
(* MCPServer._execute_publish_task: one coroutine per job on one event loop *)

Ev(k, n) == [kind |-> k, name |-> n]

\* Positions at which the coroutine is suspended in an await
YieldLabels == {"spawned", "page_sleep", "upload_sleep", "upload_settle",
                "wait_upload", "fill_sleep", "fill_done_sleep", "submit_sleep"}

\* status and progress passed to update_task at each report site
StageStatusSwapped(site) ==
    CASE site = "validate"  -> "validating"
      [] site = "auth_ok"   -> "initializing"
      [] site = "init"      -> "initializing"
      [] site = "browser"   -> "browser_starting"
      [] site = "navigate"  -> "navigating"
      [] site = "cookies"   -> "loading_cookies"
      [] site = "page"      -> "accessing_publish_page"
      [] site = "mode"      -> "switching_mode"
      [] site = "upload"    -> "waiting_upload"
      [] site = "wait"      -> "uploading"
      [] site = "fill"      -> "filling_content"
      [] site = "submit"    -> "publishing"
      [] site = "completed" -> "completed"
      [] OTHER              -> "failed"

StageStatus(site) ==
    CASE site = "validate"  -> "validating"
      [] site = "auth_ok"   -> "initializing"
      [] site = "init"      -> "initializing"
      [] site = "browser"   -> "browser_starting"
      [] site = "navigate"  -> "navigating"
      [] site = "cookies"   -> "loading_cookies"
      [] site = "page"      -> "accessing_publish_page"
      [] site = "mode"      -> "switching_mode"
      [] site = "upload"    -> "uploading"
      [] site = "wait"      -> "waiting_upload"
      [] site = "fill"      -> "filling_content"
      [] site = "submit"    -> "publishing"
      [] site = "completed" -> "completed"
      [] OTHER              -> "failed"

StageProgressDip(site) ==
    CASE site = "validate"  -> 5
      [] site = "auth_ok"   -> 10
      [] site = "init"      -> 15
      [] site = "browser"   -> 20
      [] site = "navigate"  -> 25
      [] site = "cookies"   -> 30
      [] site = "page"      -> 35
      [] site = "mode"      -> 40
      [] site = "upload"    -> 50
      [] site = "wait"      -> 60
      [] site = "fill"      -> 70
      [] site = "submit"    -> 8
      [] site = "completed" -> 100
      [] OTHER              -> 0

StageProgress(site) ==
    CASE site = "validate"  -> 5
      [] site = "auth_ok"   -> 10
      [] site = "init"      -> 15
      [] site = "browser"   -> 20
      [] site = "navigate"  -> 25
      [] site = "cookies"   -> 30
      [] site = "page"      -> 35
      [] site = "mode"      -> 40
      [] site = "upload"    -> 50
      [] site = "wait"      -> 60
      [] site = "fill"      -> 70
      [] site = "submit"    -> 80
      [] site = "completed" -> 100
      [] OTHER              -> 0

\* Where control goes after a failure branch has reported "failed": every
\* such branch returns, so only the finally clause is left.
AfterFailedNoReturn(next) == next

AfterFailed(next) == "finally"

Goto(j, label) ==
    /\ pc' = [pc EXCEPT ![j] = label]
    /\ cur' = IF label \in YieldLabels \cup {"ended"} THEN NoJob ELSE j

\* update_task(task_id, status=..., progress=..., message=..., result=...) at a
\* report site, preceded by the stage work named in works
Report(j, works, site, result) ==
    /\ tasks' = update_task(tasks, j, Some(StageStatus(site)), Some(StageProgress(site)),
                            Some(site), result, now)
    /\ trace' = [trace EXCEPT ![j] = @ \o works \o <<Ev("status", StageStatus(site))>>]

\* an except branch that returns without reporting
FailSilently(j, works, error_type, next) ==
    /\ trace' = [trace EXCEPT ![j] = @ \o works]
    /\ Goto(j, AfterFailed(next))
    /\ UNCHANGED tasks

Fail(j, works, error_type, next) ==
    /\ tasks' = update_task(tasks, j, Some(StageStatus("failed")), Some(StageProgress("failed")),
                            Some(error_type), Some(ErrorResult(error_type)), now)
    /\ trace' = [trace EXCEPT ![j] = @ \o works \o <<Ev("status", StageStatus("failed"))>>]
    /\ Goto(j, AfterFailed(next))

\* the outer "except Exception": failed, with a result of success and message only
FailOuter(j, works) ==
    /\ tasks' = update_task(tasks, j, Some(StageStatus("failed")), Some(StageProgress("failed")),
                            Some("task_failed"), Some(OuterErrorResult), now)
    /\ trace' = [trace EXCEPT ![j] = @ \o works \o <<Ev("status", StageStatus("failed"))>>]
    /\ Goto(j, "finally")

Running(j) == cur = j

Resumable(j, label) == cur = NoJob /\ pc[j] = label

\* asyncio.CancelledError raised at the await: not an Exception, only finally runs
Interrupted(j) ==
    /\ Goto(j, "finally")
    /\ UNCHANGED <<tasks, trace, swallowed, driver, gate>>

Start(j) ==
    /\ Resumable(j, "spawned")
    /\ IF get_task(tasks, j) = None
       THEN /\ Goto(j, "ended")
            /\ UNCHANGED <<tasks, trace>>
       ELSE /\ Report(j, <<>>, "validate", None)
            /\ Goto(j, "stage0")
    /\ UNCHANGED <<now, cookieFile, running_tasks, cancelled, driver, swallowed, gate,
                   evictBit, evictArg, call, pub, auth, login, upl, ver, client, coll, save, vid, batch, fill, jsn>>

Stage0(j) ==
    /\ Running(j) /\ pc[j] = "stage0"
    /\ gate' = [gate EXCEPT ![j] = check_auth_status(cookieFile, now)]
    /\ \E raises \in BOOLEAN :
         IF raises
         THEN Fail(j, <<Ev("work", "check_cookies_file")>>, "validation_error", "stage1")
         ELSE IF ~cookieFile.exists
         THEN Fail(j, <<Ev("work", "check_cookies_file")>>, "auth_required", "stage1")
         ELSE /\ Report(j, <<Ev("work", "check_cookies_file")>>, "auth_ok", None)
              /\ Goto(j, "stage1")
    /\ UNCHANGED <<now, cookieFile, running_tasks, cancelled, driver, swallowed,
                   evictBit, evictArg, call, pub, auth, login, upl, ver, client, coll, save, vid, batch, fill, jsn>>

Stage1(j) ==
    /\ Running(j) /\ pc[j] = "stage1"
    /\ Report(j, <<>>, "init", None)
    /\ Goto(j, "client")
    /\ UNCHANGED <<now, cookieFile, running_tasks, cancelled, driver, swallowed, gate,
                   evictBit, evictArg, call, pub, auth, login, upl, ver, client, coll, save, vid, batch, fill, jsn>>

\* the instance the server built for itself in __init__ (self.xhs_client)
ServerClient == 1

\* XHSClient(self.config): a new instance with its own ChromeDriverManager,
\* numbered after the server's own and those built before
XHSClientShared == ServerClient

XHSClient == ServerClient + Cardinality({k \in JobIds : client[k] # NoClient}) + 1

\* client = XHSClient(self.config) stands outside the inner try blocks: an
\* exception from it reaches the outer handler
Stage2(j) ==
    /\ Running(j) /\ pc[j] = "client"
    /\ \E raises \in BOOLEAN :
         IF raises
         THEN /\ FailOuter(j, <<Ev("work", "XHSClient")>>)
              /\ UNCHANGED client
         ELSE /\ client' = [client EXCEPT ![j] = XHSClient]
              /\ Report(j, <<Ev("work", "XHSClient")>>, "browser", None)
              /\ Goto(j, "create_driver")
    /\ UNCHANGED <<now, cookieFile, running_tasks, cancelled, driver, swallowed, gate,
                   evictBit, evictArg, call, pub, auth, login, upl, ver, coll, save, vid, batch, fill, jsn>>

CreateDriver(j) ==
    /\ Running(j) /\ pc[j] = "create_driver"
    /\ \E ok \in BOOLEAN :
         IF ok
         THEN /\ driver' = [driver EXCEPT ![j] = "open"]
              /\ Report(j, <<Ev("work", "create_driver")>>, "navigate", None)
              /\ Goto(j, "navigate")
         ELSE /\ Fail(j, <<Ev("work", "create_driver")>>, "browser_init_error", "navigate")
              /\ UNCHANGED driver
    /\ UNCHANGED <<now, cookieFile, running_tasks, cancelled, swallowed, gate,
                   evictBit, evictArg, call, pub, auth, login, upl, ver, client, coll, save, vid, batch, fill, jsn>>

Navigate(j) ==
    /\ Running(j) /\ pc[j] = "navigate"
    /\ \E ok \in BOOLEAN :
         IF ok
         THEN /\ Report(j, <<Ev("work", "navigate_to_creator_center")>>, "cookies", None)
              /\ Goto(j, "load_cookies")
         ELSE Fail(j, <<Ev("work", "navigate_to_creator_center")>>, "browser_init_error",
                   "load_cookies")
    /\ UNCHANGED <<now, cookieFile, running_tasks, cancelled, driver, swallowed, gate,
                   evictBit, evictArg, call, pub, auth, login, upl, ver, client, coll, save, vid, batch, fill, jsn>>

LoadCookies(j) ==
    /\ Running(j) /\ pc[j] = "load_cookies"
    /\ \E ok \in BOOLEAN :
         IF ok
         THEN /\ Report(j, <<Ev("work", "load_cookies")>>, "page", None)
              /\ Goto(j, "access_page")
         ELSE Fail(j, <<Ev("work", "load_cookies")>>, "browser_init_error", "access_page")
    /\ UNCHANGED <<now, cookieFile, running_tasks, cancelled, driver, swallowed, gate,
                   evictBit, evictArg, call, pub, auth, login, upl, ver, client, coll, save, vid, batch, fill, jsn>>

AccessPage(j) ==
    /\ Running(j) /\ pc[j] = "access_page"
    /\ \E ok \in BOOLEAN :
         IF ok
         THEN /\ trace' = [trace EXCEPT ![j] = Append(@, Ev("work", "get_publish_page"))]
              /\ Goto(j, "page_sleep")
              /\ UNCHANGED tasks
         ELSE Fail(j, <<Ev("work", "get_publish_page")>>, "page_access_error", "page_sleep")
    /\ UNCHANGED <<now, cookieFile, running_tasks, cancelled, driver, swallowed, gate,
                   evictBit, evictArg, call, pub, auth, login, upl, ver, client, coll, save, vid, batch, fill, jsn>>

PageVerify(j) ==
    /\ Resumable(j, "page_sleep")
    /\ IF j \in cancelled
       THEN Interrupted(j)
       ELSE /\ \E url_has_publish \in BOOLEAN :
                 IF url_has_publish
                 THEN /\ Report(j, <<Ev("work", "check_url")>>, "mode", None)
                      /\ Goto(j, "switch_mode")
                 ELSE Fail(j, <<Ev("work", "check_url")>>, "page_access_error", "switch_mode")
            /\ UNCHANGED <<swallowed, driver, gate>>
    /\ UNCHANGED <<now, cookieFile, running_tasks, cancelled, evictBit, evictArg,
                   call, pub, auth, login, upl, ver, client, coll, save, vid, batch, fill, jsn>>

\* XHSClient defines no _switch_publish_mode: for a note with media the call
\* raises AttributeError, which the stage logs as a warning and ignores.
SwitchMode(j) ==
    /\ Running(j) /\ pc[j] = "switch_mode"
    /\ j \in DOMAIN tasks
    /\ LET note == tasks[j].note IN
         IF has_images(note) \/ has_videos(note)
         THEN /\ swallowed' = [swallowed EXCEPT ![j] = @ \cup {"switch_mode"}]
              /\ Report(j, <<Ev("work", "switch_publish_mode")>>, "upload", None)
              /\ Goto(j, "upload")
         ELSE /\ Report(j, <<>>, "fill", None)
              /\ Goto(j, "fill_sleep")
              /\ UNCHANGED swallowed
    /\ UNCHANGED <<now, cookieFile, running_tasks, cancelled, driver, gate,
                   evictBit, evictArg, call, pub, auth, login, upl, ver, client, coll, save, vid, batch, fill, jsn>>

\* client._handle_file_upload: a missing upload control or a raising send_keys
\* is logged inside the client and the call returns normally.
Upload(j) ==
    /\ Running(j) /\ pc[j] = "upload"
    /\ \E outcome \in {"no_control", "send_raises", "sent"} :
         IF outcome = "sent"
         THEN /\ trace' = [trace EXCEPT ![j] = Append(@, Ev("work", "send_files"))]
              /\ Goto(j, "upload_sleep")
              /\ UNCHANGED <<tasks, swallowed>>
         ELSE /\ swallowed' = [swallowed EXCEPT ![j] = @ \cup {"upload"}]
              /\ Report(j, <<Ev("work", "send_files")>>, "wait", None)
              /\ Goto(j, "wait_upload")
    /\ UNCHANGED <<now, cookieFile, running_tasks, cancelled, driver, gate,
                   evictBit, evictArg, call, pub, auth, login, upl, ver, client, coll, save, vid, batch, fill, jsn>>

\* after asyncio.sleep(3) inside _handle_file_upload: the client itself waits
\* for the upload (video: _wait_for_video_upload_complete, images: sleep(2))
UploadStarted(j) ==
    /\ Resumable(j, "upload_sleep")
    /\ IF j \in cancelled
       THEN Interrupted(j)
       ELSE /\ trace' = [trace EXCEPT ![j] = Append(@, Ev("work", "client_wait_upload"))]
            /\ Goto(j, "upload_settle")
            /\ UNCHANGED <<tasks, swallowed, driver, gate>>
    /\ UNCHANGED <<now, cookieFile, running_tasks, cancelled, evictBit, evictArg,
                   call, pub, auth, login, upl, ver, client, coll, save, vid, batch, fill, jsn>>

\* _handle_file_upload has returned; the pipeline reports waiting_upload and
\* awaits again (video: _wait_for_video_upload_complete, images: sleep(3))
UploadSettled(j) ==
    /\ Resumable(j, "upload_settle")
    /\ IF j \in cancelled
       THEN Interrupted(j)
       ELSE /\ \E wait_raises \in BOOLEAN :
                 swallowed' = [swallowed EXCEPT ![j] =
                                  IF wait_raises /\ j \in DOMAIN tasks /\ has_videos(tasks[j].note)
                                  THEN @ \cup {"wait_upload"} ELSE @]
            /\ Report(j, <<>>, "wait", None)
            /\ Goto(j, "wait_upload")
            /\ UNCHANGED <<driver, gate>>
    /\ UNCHANGED <<now, cookieFile, running_tasks, cancelled, evictBit, evictArg,
                   call, pub, auth, login, upl, ver, client, coll, save, vid, batch, fill, jsn>>

\* stage 6 report, then _fill_note_content starts with asyncio.sleep(2)
WaitUpload(j) ==
    /\ Resumable(j, "wait_upload")
    /\ IF j \in cancelled
       THEN Interrupted(j)
       ELSE /\ Report(j, <<Ev("work", "pipeline_wait_upload")>>, "fill", None)
            /\ Goto(j, "fill_sleep")
            /\ UNCHANGED <<swallowed, driver, gate>>
    /\ UNCHANGED <<now, cookieFile, running_tasks, cancelled, evictBit, evictArg,
                   call, pub, auth, login, upl, ver, client, coll, save, vid, batch, fill, jsn>>

\* client._fill_note_content: title, then content; either raises PublishError
FillContent(j) ==
    /\ Resumable(j, "fill_sleep")
    /\ IF j \in cancelled
       THEN Interrupted(j)
       ELSE /\ \E outcome \in {"title_fails", "content_fails", "ok"} :
                 IF outcome = "ok"
                 THEN /\ trace' = [trace EXCEPT ![j] = @ \o <<Ev("work", "fill_title"),
                                                                Ev("work", "fill_content")>>]
                      /\ Goto(j, "fill_done_sleep")
                      /\ UNCHANGED tasks
                 ELSE Fail(j, IF outcome = "title_fails"
                              THEN <<Ev("work", "fill_title")>>
                              ELSE <<Ev("work", "fill_title"), Ev("work", "fill_content")>>,
                           "content_fill_error", "fill_done_sleep")
            /\ UNCHANGED <<swallowed, driver, gate>>
    /\ UNCHANGED <<now, cookieFile, running_tasks, cancelled, evictBit, evictArg,
                   call, pub, auth, login, upl, ver, client, coll, save, vid, batch, fill, jsn>>

FillDone(j) ==
    /\ Resumable(j, "fill_done_sleep")
    /\ IF j \in cancelled
       THEN Interrupted(j)
       ELSE /\ Report(j, <<>>, "submit", None)
            /\ Goto(j, "submit")
            /\ UNCHANGED <<swallowed, driver, gate>>
    /\ UNCHANGED <<now, cookieFile, running_tasks, cancelled, evictBit, evictArg,
                   call, pub, auth, login, upl, ver, client, coll, save, vid, batch, fill, jsn>>

\* client._submit_note up to asyncio.sleep(3) after the click
Submit(j) ==
    /\ Running(j) /\ pc[j] = "submit"
    /\ \E ok \in BOOLEAN :
         IF ok
         THEN /\ trace' = [trace EXCEPT ![j] = Append(@, Ev("work", "click_publish"))]
              /\ Goto(j, "submit_sleep")
              /\ UNCHANGED tasks
         ELSE Fail(j, <<Ev("work", "click_publish")>>, "submit_error", "submit_sleep")
    /\ UNCHANGED <<now, cookieFile, running_tasks, cancelled, driver, swallowed, gate,
                   evictBit, evictArg, call, pub, auth, login, upl, ver, client, coll, save, vid, batch, fill, jsn>>

\* success flag of the XHSPublishResult that client._submit_note returns
submit_result_success == TRUE

SubmitDone(j) ==
    /\ Resumable(j, "submit_sleep")
    /\ IF j \in cancelled
       THEN Interrupted(j)
       ELSE /\ \E ok \in BOOLEAN :
                 IF ok
                 THEN /\ tasks' = update_task(tasks, j,
                                     Some(StageStatus(IF submit_result_success THEN "completed" ELSE "failed")),
                                     Some(StageProgress(IF submit_result_success THEN "completed" ELSE "failed")),
                                     Some(IF submit_result_success THEN "completed" ELSE "publish_failed"),
                                     Some(PublishResultDict(submit_result_success)), now)
                      /\ trace' = [trace EXCEPT ![j] = @ \o
                                     <<Ev("work", "read_final_url"),
                                       Ev("status", StageStatus(IF submit_result_success
                                                                THEN "completed" ELSE "failed"))>>]
                      /\ Goto(j, "finally")
                 ELSE Fail(j, <<Ev("work", "read_final_url")>>, "submit_error", "finally")
            /\ UNCHANGED <<swallowed, driver, gate>>
    /\ UNCHANGED <<now, cookieFile, running_tasks, cancelled, evictBit, evictArg,
                   call, pub, auth, login, upl, ver, client, coll, save, vid, batch, fill, jsn>>

FinallyKeepsHandle(j) ==
    /\ Running(j) /\ pc[j] = "finally"
    /\ Goto(j, "ended")
    /\ UNCHANGED <<now, cookieFile, tasks, running_tasks, cancelled, driver, trace, swallowed,
                   gate, evictBit, evictArg, call, pub, auth, login, upl, ver, client,
                   coll, save, vid, batch, fill, jsn>>

\* finally: if task_id in running_tasks: del running_tasks[task_id]
Finally(j) ==
    /\ Running(j) /\ pc[j] = "finally"
    /\ running_tasks' = running_tasks \ {j}
    /\ Goto(j, "ended")
    /\ UNCHANGED <<now, cookieFile, tasks, cancelled, driver, trace, swallowed, gate,
                   evictBit, evictArg, call, pub, auth, login, upl, ver, client, coll, save, vid, batch, fill, jsn>>

-----------------------------------------------------------------------------
(* Tool handlers; each runs to completion while no pipeline holds the loop *)

\* str(uuid.uuid4())[:8]: an id not issued before; ids are numbered in the
\* order in which they are drawn
FreshIds == {i \in JobIds : pc[i] = "none" /\ \A k \in JobIds : pc[k] = "none" => i <= k}

\* smart_publish_note / publish_from_json / batch_publish_from_json:
\* create_task, asyncio.create_task(_execute_publish_task), running_tasks[id] = task
SmartPublishNote(id, note) ==
    /\ cur = NoJob
    /\ id \in FreshIds
    /\ tasks' = create_task(tasks, id, note, now)
    /\ running_tasks' = running_tasks \cup {id}
    /\ pc' = [pc EXCEPT ![id] = "spawned"]
    /\ UNCHANGED <<now, cookieFile, cancelled, cur, driver, trace, swallowed, gate,
                   evictBit, evictArg, call, pub, auth, login, upl, ver, client, coll, save, vid, batch, fill, jsn>>

\* The values str(uuid.uuid4())[:8] can return: eight hexadecimal digits drawn
\* at random, with no check against the ids already in the registry
uuid4_short == JobIds

MaxSpawns == 2

\* smart_publish_note with the id as create_task draws it: the record is
\* stored under the id, one coroutine is spawned for it and its handle is
\* stored under the same id
CreateAndSpawn(id, note) ==
    /\ cur = NoJob
    /\ id \in uuid4_short
    /\ Len(trace[id]) < MaxSpawns
    /\ tasks' = create_task(tasks, id, note, now)
    /\ running_tasks' = running_tasks \cup {id}
    /\ pc' = [pc EXCEPT ![id] = "spawned"]
    /\ trace' = [trace EXCEPT ![id] = Append(@, Ev("spawn", "_execute_publish_task"))]
    /\ UNCHANGED <<now, cookieFile, cancelled, cur, driver, swallowed, gate,
                   evictBit, evictArg, call, pub, auth, login, upl, ver, client, coll, save, vid, batch, fill, jsn>>

\* check_task_status: the reply computed from the registry when the tool runs
StatusReply(ts, id) ==
    IF get_task(ts, id) = None
    THEN [task_id |-> id, success |-> FALSE, status |-> "", progress |-> 0,
          is_completed |-> FALSE]
    ELSE [task_id |-> id, success |-> TRUE, status |-> ts[id].status,
          progress |-> ts[id].progress, is_completed |-> ts[id].status \in Terminal]

\* get_task_result: the reply as the set of its keys with the values of
\* success, status/current_status and publish_result
ResultReplyCompletedOnly(ts, id) ==
    IF get_task(ts, id) = None
    THEN [keys |-> {"success", "message"}, success |-> FALSE, status |-> "",
          publish_result |-> None]
    ELSE IF ts[id].status # "completed"
    THEN [keys |-> {"success", "message", "current_status", "progress"}, success |-> FALSE,
          status |-> ts[id].status, publish_result |-> None]
    ELSE [keys |-> {"success", "task_id", "status", "message", "execution_time"}
                      \cup (IF TruthyDict(ts[id].result) THEN {"publish_result"} ELSE {}),
          success |-> ts[id].status = "completed",
          status |-> ts[id].status,
          publish_result |-> IF TruthyDict(ts[id].result) THEN ts[id].result ELSE None]

ResultReply(ts, id) ==
    IF get_task(ts, id) = None
    THEN [keys |-> {"success", "message"}, success |-> FALSE, status |-> "",
          publish_result |-> None]
    ELSE IF ts[id].status \notin {"completed", "failed"}
    THEN [keys |-> {"success", "message", "current_status", "progress"}, success |-> FALSE,
          status |-> ts[id].status, publish_result |-> None]
    ELSE [keys |-> {"success", "task_id", "status", "message", "execution_time"}
                      \cup (IF TruthyDict(ts[id].result) THEN {"publish_result"} ELSE {}),
          success |-> ts[id].status = "completed",
          status |-> ts[id].status,
          publish_result |-> IF TruthyDict(ts[id].result) THEN ts[id].result ELSE None]

\* max_age_seconds values tried (the default 3600, scaled to the clock)
MaxAges == {0, 1}

remove_old_tasks(max_age_seconds) ==
    /\ cur = NoJob
    /\ LET expired == expired_tasks(tasks, now, max_age_seconds) IN
         /\ tasks' = Remove(tasks, expired)
         /\ cancelled' = cancelled \cup (expired \cap running_tasks)
         /\ running_tasks' = running_tasks \ expired
    /\ evictBit' = 1 - evictBit
    /\ evictArg' = max_age_seconds
    /\ UNCHANGED <<now, cookieFile, pc, cur, driver, trace, swallowed, gate, call, pub, auth, login, upl, ver, client, coll, save, vid, batch, fill, jsn>>

\* the clock is read at the points where the event loop is idle
Tick ==
    /\ cur = NoJob
    /\ now < MaxTime
    /\ now' = now + 1
    /\ UNCHANGED <<cookieFile, tasks, running_tasks, cancelled, pc, cur, driver, trace,
                   swallowed, gate, evictBit, evictArg, call, pub, auth, login, upl, ver, client, coll, save, vid, batch, fill, jsn>>

-----------------------------------------------------------------------------
(* XHSPublisher.publish_note with XHSContentFiller: one run *)

MAX_TOPICS == 10
MAX_TOPIC_LENGTH == 20

\* topic lists a note can carry: none, one, two, a topic longer than
\* MAX_TOPIC_LENGTH alone and after a short one, more than MAX_TOPICS topics
TopicLists ==
    { <<>>, <<"a">>, <<"a", "b">>, <<"abcdefghijklmnopqrstu">>,
      <<"a", "abcdefghijklmnopqrstu">>,
      <<"a", "b", "c", "d", "e", "f", "g", "h", "i", "j", "k">> }

PubNotes == {[media |-> m, topics |-> t] : m \in {"text", "images", "videos"}, t \in TopicLists}

PubIdle == [pc |-> "idle", note |-> [media |-> "text", topics |-> <<>>], driver |-> "none",
            error |-> None, result |-> None, i |-> 0, success_count |-> 0,
            fill_topics |-> None, failed |-> {}, warned |-> FALSE]

\* _validate_topics: TRUE when it returns, FALSE when it raises PublishError
_validate_topics(topics) ==
    /\ ~(Len(topics) > MAX_TOPICS)
    /\ \A k \in DOMAIN topics : ~(Len(topics[k]) > MAX_TOPIC_LENGTH)

\* What _fill_note_content does with the value fill_topics returned
AfterTopicsStrict(success) == IF success THEN "submit" ELSE "raise"

AfterTopics(success) == "submit"

\* a PublishError(publish_step=step) leaves through the finally clause
PubRaise(step) ==
    pub' = [pub EXCEPT !.pc = "finally", !.error = Some(step)]

PubGoto(label) == pub' = [pub EXCEPT !.pc = label]

PubFrame ==
    UNCHANGED <<now, cookieFile, tasks, running_tasks, cancelled, pc, cur, driver, trace,
                swallowed, gate, evictBit, evictArg, call, auth, login, upl, ver, client, coll, save, vid, batch, fill, jsn>>

\* publish_note is entered and browser_manager.create_driver() runs
publish_note(note) ==
    /\ pub.pc = "idle"
    /\ \E ok \in BOOLEAN :
         IF ok
         THEN pub' = [pub EXCEPT !.pc = "navigate", !.note = note, !.driver = "open"]
         ELSE pub' = [pub EXCEPT !.pc = "finally", !.note = note, !.error = Some("init")]
    /\ PubFrame

_navigate_to_publish_page ==
    /\ pub.pc = "navigate"
    /\ \E outcome \in {"raises", "not_publish_url", "ok"} :
         IF outcome = "ok" THEN PubGoto("switch_mode") ELSE PubRaise("navigate")
    /\ PubFrame

\* every failure of the mode switch is logged as a warning
_switch_publish_mode ==
    /\ pub.pc = "switch_mode"
    /\ PubGoto("upload")
    /\ PubFrame

PubUpload ==
    /\ pub.pc = "upload"
    /\ IF has_images(pub.note) \/ has_videos(pub.note)
       THEN \E outcome \in {"raises", "not_success", "success"} :
              IF outcome = "success" THEN PubGoto("fill_title") ELSE PubRaise("upload")
       ELSE PubGoto("fill_title")
    /\ PubFrame

PubFillTitle ==
    /\ pub.pc = "fill_title"
    /\ \E success \in BOOLEAN :
         IF success THEN PubGoto("fill_content") ELSE PubRaise("fill")
    /\ PubFrame

PubFillContent ==
    /\ pub.pc = "fill_content"
    /\ \E success \in BOOLEAN :
         IF ~success THEN PubRaise("fill")
         ELSE IF pub.note.topics # <<>> THEN PubGoto("topics")
         ELSE PubGoto("submit")
    /\ PubFrame

\* fill_topics has returned success to _fill_note_content
TopicsReturn(success, failed) ==
    IF AfterTopics(success) = "submit"
    THEN pub' = [pub EXCEPT !.pc = "submit", !.fill_topics = Some(success),
                            !.failed = failed, !.warned = ~success]
    ELSE pub' = [pub EXCEPT !.pc = "finally", !.fill_topics = Some(success),
                            !.failed = failed, !.error = Some("fill")]

\* fill_topics up to the topic loop: validation, then the editor lookup
fill_topics ==
    /\ pub.pc = "topics"
    /\ IF ~_validate_topics(pub.note.topics)
       THEN TopicsReturn(FALSE, DOMAIN pub.note.topics)
       ELSE \E editor \in {"raises", "not_found", "found"} :
              IF editor = "found"
              THEN pub' = [pub EXCEPT !.pc = "topic", !.i = 1, !.success_count = 0]
              ELSE TopicsReturn(FALSE, DOMAIN pub.note.topics)
    /\ PubFrame

\* one iteration of the loop in _perform_topics_automation
PubTopic ==
    /\ pub.pc = "topic"
    /\ pub.i \in DOMAIN pub.note.topics
    /\ \E outcome \in {"raises", "input_failed", "not_converted", "converted"} :
         pub' = [pub EXCEPT !.i = @ + 1,
                            !.success_count = IF outcome = "converted" THEN @ + 1 ELSE @,
                            !.failed = IF outcome = "converted" THEN @ ELSE @ \cup {pub.i}]
    /\ PubFrame

\* after the loop: return success_count > 0
PubTopicsDone ==
    /\ pub.pc = "topic"
    /\ pub.i \notin DOMAIN pub.note.topics
    /\ TopicsReturn(pub.success_count > 0, pub.failed)
    /\ PubFrame

\* _submit_note and _check_publish_result, which always reports success
PubSubmit ==
    /\ pub.pc = "submit"
    /\ \E outcome \in {"no_button", "raises", "clicked"} :
         IF outcome = "clicked"
         THEN pub' = [pub EXCEPT !.pc = "finally", !.result = Some(TRUE)]
         ELSE PubRaise("submit")
    /\ PubFrame

\* finally: browser_manager.close_driver()
PubFinally ==
    /\ pub.pc = "finally"
    /\ pub' = [pub EXCEPT !.pc = "returned",
                          !.driver = IF @ = "open" THEN "closed" ELSE @]
    /\ PubFrame

-----------------------------------------------------------------------------
(* CookieManager._wait_for_login_completion: the login detector *)

\* seconds between two samples of the page
check_interval == 3

\* ceilings a caller passes as timeout_seconds
Timeouts == {4, 6, 7}

\* What the browser shows: the kind of URL and the DOM landmarks present.
\* URL kinds: a login keyword; a creator path known to both classifiers; the
\* path '/new' known to _is_on_creator_center only; anything else.
UrlKinds == {"login", "creator_path", "new_path", "other"}

Page(u, l, c, e) ==
    [url |-> u, login_elements |-> l, creator_elements |-> c, error_elements |-> e]

Pages == {Page(u, l, c, e) : u \in UrlKinds, l \in {0, 2}, c \in BOOLEAN, e \in BOOLEAN}

\* save_cookies_auto: driver.get(login_url)
LoginPage == Page("login", 2, FALSE, FALSE)

\* find_elements raising is caught per element: nothing is found
_is_still_on_login_page(page, dom_raises) ==
    IF page.url = "login" THEN TRUE
    ELSE IF page.url = "creator_path" THEN FALSE
    ELSE IF dom_raises THEN FALSE
    ELSE page.login_elements >= 2

_is_on_creator_center(page, dom_raises) ==
    IF page.url = "login" THEN FALSE
    ELSE IF page.url \in {"creator_path", "new_path"} THEN TRUE
    ELSE IF dom_raises THEN FALSE
    ELSE page.creator_elements

\* any exception gives False
_is_error_page(page, dom_raises) ==
    IF dom_raises THEN FALSE ELSE page.error_elements

\* the classifiers reach find_elements only for a URL they do not decide on
DomProbed(page) == page.url \in {"new_path", "other"}

\* a save_cookies_auto that reads the cookies whatever the detector returned
save_cookies_autoUnchecked(success) == "get_cookies"

\* save_cookies_auto after _wait_for_login_completion returned: every False
\* raises the same AuthenticationError, True goes on to read the cookies
save_cookies_auto(success) ==
    IF success THEN "get_cookies" ELSE "AuthenticationError: login timeout"

LoginIdle ==
    [pc |-> "idle", timeout |-> 0, elapsed |-> 0, page |-> LoginPage,
     never_left |-> TRUE, detected |-> FALSE, fails |-> 0,
     exit |-> "none", report |-> "none", history |-> <<>>]

LoginFrame ==
    UNCHANGED <<now, cookieFile, tasks, running_tasks, cancelled, pc, cur, driver, trace,
                swallowed, gate, evictBit, evictArg, call, pub, auth, upl, ver, client, coll, save, vid, batch, fill, jsn>>

\* a return statement of _wait_for_login_completion, seen by save_cookies_auto
WaitReturn(l, exit, success) ==
    [l EXCEPT !.pc = "returned", !.exit = exit, !.report = save_cookies_auto(success),
              !.history = Append(@, [exit |-> exit, report |-> save_cookies_auto(success)])]

\* save_cookies_auto up to the loop: the login page is opened and
\* initial_url is read outside every try of _wait_for_login_completion
WaitStart(timeout_seconds, url_raises) ==
    /\ login.pc \in {"idle", "returned"}
    /\ Len(login.history) < MaxRuns
    /\ LET l == [LoginIdle EXCEPT !.timeout = timeout_seconds, !.history = login.history]
       IN  IF url_raises
           THEN login' = [l EXCEPT !.pc = "returned", !.exit = "initial_url_error",
                                   !.fails = 1,
                                   !.report = "AuthenticationError: auto login failed",
                                   !.history = Append(@,
                                       [exit |-> "initial_url_error",
                                        report |-> "AuthenticationError: auto login failed"])]
           ELSE login' = [l EXCEPT !.pc = "loop"]
    /\ LoginFrame

\* one pass of the while loop up to its sleep or return
WaitPoll(url_raises, dom_raises) ==
    /\ login.pc = "loop"
    /\ IF ~(login.elapsed < login.timeout)
       THEN login' = WaitReturn(login, "timed_out", FALSE)
       ELSE IF url_raises
       THEN login' = WaitReturn([login EXCEPT !.fails = @ + 1], "probe_error", FALSE)
       ELSE LET failed == dom_raises /\ DomProbed(login.page)
                l == [login EXCEPT !.fails = IF failed THEN @ + 1 ELSE 0]
            IN  IF _is_still_on_login_page(login.page, dom_raises)
                THEN login' = [l EXCEPT !.pc = "sleep"]
                ELSE IF _is_on_creator_center(login.page, dom_raises)
                THEN login' = [l EXCEPT !.pc = "settle", !.detected = TRUE]
                ELSE IF _is_error_page(login.page, dom_raises)
                THEN login' = WaitReturn(l, "error_page", FALSE)
                ELSE login' = [l EXCEPT !.pc = "sleep"]
    /\ LoginFrame

\* time.sleep(check_interval), then the loop condition is tested again
WaitSleep ==
    /\ login.pc = "sleep"
    /\ login' = [login EXCEPT !.pc = "loop", !.elapsed = @ + check_interval]
    /\ LoginFrame

\* after the detection: time.sleep(3), final_url is read inside the try of
\* the creator check, a failing get_cookies is only logged, return True
WaitSettle(url_raises) ==
    /\ login.pc = "settle"
    /\ LET l == [login EXCEPT !.elapsed = @ + 3]
       IN  IF url_raises
           THEN login' = WaitReturn([l EXCEPT !.fails = @ + 1], "creator_check_error", FALSE)
           ELSE login' = WaitReturn(l, "authenticated", TRUE)
    /\ LoginFrame

\* the user or the site changes what the browser shows while the detector sleeps
PageChange(p) ==
    /\ login.pc \in {"sleep", "settle"}
    /\ p # login.page
    /\ login' = [login EXCEPT !.page = p,
                               !.never_left = @ /\ p.url = "login"]
    /\ LoginFrame

-----------------------------------------------------------------------------
(* XHSFileUploader._wait_for_upload_completion: the upload completion wait *)

\* XHSConfig, seconds
FILE_UPLOAD_TIME == 60
VIDEO_PROCESSING_TIME == 120

FileTypes == {"image", "video"}

max_wait_time(file_type) ==
    IF file_type = "video" THEN VIDEO_PROCESSING_TIME ELSE FILE_UPLOAD_TIME

upload_check_interval(file_type) == IF file_type = "video" THEN 5 ELSE 2

\* What one pass of probes finds displayed: nothing, .upload-success,
\* .upload-error, .video-complete, .video-processing; or find_elements raises
Observations == {"none", "success", "error", "complete", "processing", "raises"}

UplIdle ==
    [pc |-> "idle", file_type |-> "image", waited_time |-> 0, result |-> None,
     seen |-> FALSE, raised |-> FALSE]

UplFrame ==
    UNCHANGED <<now, cookieFile, tasks, running_tasks, cancelled, pc, cur, driver, trace,
                swallowed, gate, evictBit, evictArg, call, pub, auth, login, ver, client, coll, save, vid, batch, fill, jsn>>

UplReturn(u, success) == [u EXCEPT !.pc = "returned", !.result = Some(success)]

\* _perform_upload: send_keys, then the wait starts with waited_time = 0
UploadWaitStart(file_type) ==
    /\ upl.pc = "idle"
    /\ upl' = [UplIdle EXCEPT !.pc = "loop", !.file_type = file_type]
    /\ UplFrame

\* one pass of the while loop up to its await or return; past the ceiling,
\* the last check for an error marker
UploadWaitPoll(obs) ==
    /\ upl.pc = "loop"
    /\ IF upl.waited_time < max_wait_time(upl.file_type)
       THEN IF obs = "raises"
            THEN upl' = [upl EXCEPT !.pc = "sleep", !.raised = TRUE]
            ELSE IF obs = "success"
            THEN upl' = UplReturn([upl EXCEPT !.seen = TRUE], TRUE)
            ELSE IF obs = "error"
            THEN upl' = UplReturn([upl EXCEPT !.seen = TRUE], FALSE)
            ELSE IF upl.file_type = "video" /\ obs = "complete"
            THEN upl' = UplReturn([upl EXCEPT !.seen = TRUE], TRUE)
            ELSE upl' = [upl EXCEPT !.pc = "sleep"]
       ELSE IF obs = "raises"
            THEN upl' = UplReturn([upl EXCEPT !.raised = TRUE], FALSE)
            ELSE IF obs = "error"
            THEN upl' = UplReturn([upl EXCEPT !.seen = TRUE], FALSE)
            ELSE upl' = UplReturn(upl, TRUE)
    /\ UplFrame

\* await asyncio.sleep(check_interval); waited_time += check_interval
UploadWaitSleep ==
    /\ upl.pc = "sleep"
    /\ upl' = [upl EXCEPT !.pc = "loop",
                           !.waited_time = @ + upload_check_interval(upl.file_type)]
    /\ UplFrame

-----------------------------------------------------------------------------
(* Topic verification: XHSContentFiller._verify_topic_conversion and
   XHSTopicAutomation.verify_topic_conversion *)

\* What the page holds for one topic after "#topic" was typed and Enter pressed.
\*   mention:     no mention node / a mention node of this topic / only a
\*                mention node of another topic whose name contains this name
\*   editor_text: the editor's text lacks the name / holds the name as plain
\*                text / holds the name followed by the tag marker [话题]
\*   data_topic:  the page source holds a data-topic attribute somewhere
\*   elsewhere:   the name occurs in the page source outside the editor
MentionKinds == {"none", "this", "longer"}
EditorTexts == {"absent", "plain", "tagged"}

TopicPage(m, t, d, e) ==
    [mention |-> m, editor_text |-> t, data_topic |-> d, elsewhere |-> e]

TopicPages ==
    {TopicPage(m, t, d, e) :
        m \in MentionKinds, t \in EditorTexts, d \in BOOLEAN, e \in BOOLEAN}

\* the name occurs somewhere in driver.page_source
InPageSource(page) ==
    page.mention # "none" \/ page.editor_text # "absent" \/ page.elsewhere

\* content_filler: any element with the name and a mention class or
\* data-topic; else the name anywhere in the editor text; else data-topic and
\* the name anywhere in the page source. An exception gives False.
_verify_topic_conversion(page, raises) ==
    IF raises THEN FALSE
    ELSE IF page.mention # "none" THEN TRUE
    ELSE IF page.editor_text # "absent" THEN TRUE
    ELSE IF page.data_topic /\ InPageSource(page) THEN TRUE
    ELSE FALSE

\* topic_automation: a.mention with a span holding name[话题]#, else any
\* a.mention whose text contains the name. An exception gives False.
verify_topic_conversion(page, raises) ==
    IF raises THEN FALSE
    ELSE IF page.mention = "this" THEN TRUE
    ELSE IF page.mention # "none" THEN TRUE
    ELSE FALSE

VerIdle ==
    [typed |-> FALSE, page |-> TopicPage("none", "absent", FALSE, FALSE),
     filler |-> None, automation |-> None]

VerFrame ==
    UNCHANGED <<now, cookieFile, tasks, running_tasks, cancelled, pc, cur, driver, trace,
                swallowed, gate, evictBit, evictArg, call, pub, auth, login, upl, client, coll, save, vid, batch, fill, jsn>>

\* _input_topic_realistically / add_single_topic up to the verification: the
\* page is what the editor made of the typed text
TopicTyped(page) ==
    /\ ver' = [typed |-> TRUE, page |-> page, filler |-> None, automation |-> None]
    /\ VerFrame

\* _perform_topics_automation, step 4.2
VerifyFiller(raises) ==
    /\ ver.typed
    /\ ver.filler = None
    /\ ver' = [ver EXCEPT !.filler = Some(_verify_topic_conversion(ver.page, raises))]
    /\ VerFrame

\* add_single_topic, step 5
VerifyAutomation(raises) ==
    /\ ver.typed
    /\ ver.automation = None
    /\ ver' = [ver EXCEPT !.automation = Some(verify_topic_conversion(ver.page, raises))]
    /\ VerFrame

-----------------------------------------------------------------------------
(* DataCollectionScheduler._run_data_collection: one data-collection run *)

CollIdle == [pc |-> "idle", collect_dashboard |-> FALSE, collect_content |-> FALSE,
             collect_fans |-> FALSE, driver |-> "none", success_count |-> 0,
             total_count |-> 0, cancelled |-> FALSE]

CollFrame ==
    UNCHANGED <<now, cookieFile, tasks, running_tasks, cancelled, pc, cur, driver, trace,
                swallowed, gate, evictBit, evictArg, call, pub, auth, login, upl, ver,
                client, save, vid, batch, fill, jsn>>

CollectOutcomes == {"success", "failure", "raises"}

\* entry: no client or a failed import returns at once; otherwise the three
\* switches are read from the environment
_run_data_collection(has_client, import_ok, d, c, f) ==
    /\ coll.pc = "idle"
    /\ coll' = IF has_client /\ import_ok
               THEN [coll EXCEPT !.pc = "create_driver", !.collect_dashboard = d,
                                 !.collect_content = c, !.collect_fans = f]
               ELSE [coll EXCEPT !.pc = "returned"]
    /\ CollFrame

\* first try block: driver = self.client.browser_manager.create_driver()
CollectCreateDriver(ok) ==
    /\ coll.pc = "create_driver"
    /\ coll' = IF ok THEN [coll EXCEPT !.pc = "load_cookies", !.driver = "open"]
                     ELSE [coll EXCEPT !.pc = "returned"]
    /\ CollFrame

\* first try block, after the driver exists: cookie_manager.load_cookies(),
\* driver.get and browser_manager.load_cookies; an exception of any of them is
\* caught by the except clause of that block, which logs and returns
CollectLoadCookies(outcome) ==
    /\ coll.pc = "load_cookies"
    /\ coll' = IF outcome = "raises" THEN [coll EXCEPT !.pc = "returned"]
                                     ELSE [coll EXCEPT !.pc = "dashboard"]
    /\ CollFrame

\* one collector of the second try block, its own exceptions logged
Collected(c, enabled, outcome, next) ==
    [c EXCEPT !.pc = next,
              !.total_count = IF enabled THEN @ + 1 ELSE @,
              !.success_count = IF enabled /\ outcome = "success" THEN @ + 1 ELSE @]

CollectDashboard(outcome) ==
    /\ coll.pc = "dashboard"
    /\ coll' = Collected(coll, coll.collect_dashboard, outcome, "content")
    /\ CollFrame

\* result = await collect_content_analysis_data(...): the one await of the
\* run, where a cancellation is delivered
CollectContent(outcome, cancel) ==
    /\ coll.pc = "content"
    /\ coll' = IF coll.collect_content /\ cancel
               THEN [coll EXCEPT !.pc = "finally", !.total_count = @ + 1,
                                 !.cancelled = TRUE]
               ELSE Collected(coll, coll.collect_content, outcome, "fans")
    /\ CollFrame

CollectFans(outcome) ==
    /\ coll.pc = "fans"
    /\ coll' = Collected(coll, coll.collect_fans, outcome, "finally")
    /\ CollFrame

\* finally: driver.quit(), then the collection log unless cancelled
CollectFinally ==
    /\ coll.pc = "finally"
    /\ coll' = [coll EXCEPT !.pc = "returned", !.driver = "closed"]
    /\ CollFrame

-----------------------------------------------------------------------------
(* CookieManager._save_cookies_to_file and load_cookies: the cookies file *)

SaveNames == {"a1", "web_session"}

\* the cookie lists handed to a save: save_cookies_auto never saves an empty list
SaveLists == {<<a>> : a \in SaveNames} \cup {<<a, b>> : a, b \in SaveNames}

\* The file is absent (None) or holds the cookies written so far; complete is
\* TRUE once json.dump has written the whole document
FileOf(cookies, complete) == Some([cookies |-> cookies, complete |-> complete])

SaveIdle == [pc |-> "idle", file |-> None, previous |-> None, cookies |-> <<>>,
             result |-> "none", loaded |-> "none"]

SaveFrame ==
    UNCHANGED <<now, cookieFile, tasks, running_tasks, cancelled, pc, cur, driver, trace,
                swallowed, gate, evictBit, evictArg, call, pub, auth, login, upl, ver,
                client, coll, vid, batch, fill, jsn>>

\* an exception inside the try: PermissionError is caught and gives False; for
\* any other exception the next clause, except json.JSONEncodeError, names an
\* attribute the json module does not have, so AttributeError leaves the method
SaveRaised(s, error) ==
    [s EXCEPT !.pc = "returned",
              !.result = IF error = "PermissionError" THEN "False" ELSE "AttributeError"]

SaveErrors == {"PermissionError", "OSError"}

\* entry: cookies_dir.mkdir(parents=True, exist_ok=True)
_save_cookies_to_file(cookies, error) ==
    /\ save.pc \in {"idle", "returned"}
    /\ LET s == [save EXCEPT !.previous = save.file, !.cookies = cookies,
                             !.result = "none"]
       IN  save' = IF error = "none" THEN [s EXCEPT !.pc = "open"]
                                     ELSE SaveRaised(s, error)
    /\ SaveFrame

\* open(cookies_file, 'w', encoding='utf-8'): truncates the file
SaveOpen(error) ==
    /\ save.pc = "open"
    /\ save' = IF error = "none"
               THEN [save EXCEPT !.pc = "dump", !.file = FileOf(<<>>, FALSE)]
               ELSE SaveRaised(save, error)
    /\ SaveFrame

\* json.dump(cookies_data, f, ...) writes the document piece by piece into the
\* open file; a failing write leaves through the with statement, which closes
\* the file with what was written; after the last piece cookies_file.exists()
\* holds and True is returned
SaveDump(error) ==
    /\ save.pc = "dump"
    /\ LET written == save.file[1].cookies
       IN  save' = IF error # "none" THEN SaveRaised(save, "OSError")
                   ELSE IF Len(written) = Len(save.cookies)
                   THEN [save EXCEPT !.pc = "returned", !.result = "True",
                                     !.file = FileOf(written, TRUE)]
                   ELSE [save EXCEPT !.file =
                            FileOf(Append(written, save.cookies[Len(written) + 1]), FALSE)]
    /\ SaveFrame

\* load_cookies: [] without a file, AuthenticationError when json.load fails
\* on an unfinished document, otherwise the cookies of the file
load_cookies ==
    /\ save.pc \in {"idle", "returned"}
    /\ save' = [save EXCEPT !.loaded =
                   IF save.file = None THEN "[]"
                   ELSE IF ~save.file[1].complete THEN "AuthenticationError"
                   ELSE "cookies"]
    /\ SaveFrame

\* save_cookies_auto after a successful detection: driver.get_cookies(), and
\* once more after driver.refresh() when the first list is empty; an empty
\* list raises AuthenticationError, otherwise the cookies are handed to
\* _save_cookies_to_file
GetCookies(first, second, error) ==
    /\ login.pc = "returned"
    /\ login.report = "get_cookies"
    /\ save.pc \in {"idle", "returned"}
    /\ LET cookies == IF first # <<>> THEN first ELSE second
           s == [save EXCEPT !.previous = save.file, !.cookies = cookies,
                             !.result = "none"]
       IN  IF cookies = <<>>
           THEN /\ login' = [login EXCEPT !.report = "AuthenticationError: no cookies"]
                /\ save' = save
           ELSE /\ login' = [login EXCEPT !.report = "saving"]
                /\ save' = IF error = "none" THEN [s EXCEPT !.pc = "open"]
                                             ELSE SaveRaised(s, error)
    /\ UNCHANGED <<now, cookieFile, tasks, running_tasks, cancelled, pc, cur, driver, trace,
                   swallowed, gate, evictBit, evictArg, call, pub, auth, upl, ver,
                   client, coll, vid, batch, fill, jsn>>

-----------------------------------------------------------------------------
(* XHSClient._wait_for_video_upload_complete: the video-upload wait *)

\* max_wait_time and check_interval of the method, in seconds
video_max_wait_time == 120
video_check_interval == 2

VidIdle == [pc |-> "idle", elapsed_time |-> 0, success_found |-> FALSE,
            always_raised |-> TRUE]

VidFrame ==
    UNCHANGED <<now, cookieFile, tasks, running_tasks, cancelled, pc, cur, driver, trace,
                swallowed, gate, evictBit, evictArg, call, pub, auth, login, upl, ver,
                client, coll, save, batch, fill, jsn>>

\* _handle_file_upload: the video was sent; elapsed_time = 0
VideoWaitStart ==
    /\ vid.pc = "idle"
    /\ vid' = [VidIdle EXCEPT !.pc = "loop"]
    /\ VidFrame

\* one pass of the while loop up to its await: the success selectors are
\* probed, a raising find_elements only moves on to the next selector; when
\* the loop has ended the video information is read and the method returns
VideoWaitPoll(obs) ==
    /\ vid.pc = "loop"
    /\ IF vid.elapsed_time < video_max_wait_time /\ ~vid.success_found
       THEN vid' = [vid EXCEPT !.pc = IF obs = "success" THEN "loop" ELSE "sleep",
                               !.success_found = (obs = "success"),
                               !.always_raised = @ /\ obs = "raises"]
       ELSE vid' = [vid EXCEPT !.pc = "returned"]
    /\ VidFrame

VideoWaitSleepNoCount ==
    /\ vid.pc = "sleep"
    /\ vid' = [vid EXCEPT !.pc = "loop"]
    /\ VidFrame

\* await asyncio.sleep(check_interval); elapsed_time += check_interval
VideoWaitSleep ==
    /\ vid.pc = "sleep"
    /\ vid' = [vid EXCEPT !.pc = "loop", !.elapsed_time = @ + video_check_interval]
    /\ VidFrame

-----------------------------------------------------------------------------
(* AdvancedXHSTopicAutomation.batch_process_with_retry: topics with retries *)

\* default of the parameter max_retries
max_retries == 2

\* number of topics in a batch
MaxBatch == 3

BatchIdle == [pc |-> "idle", total |-> 0, i |-> 0, success |-> FALSE, retry_count |-> 0,
              attempts |-> <<>>, succeeded |-> 0, failed |-> {}]

BatchFrame ==
    UNCHANGED <<now, cookieFile, tasks, running_tasks, cancelled, pc, cur, driver, trace,
                swallowed, gate, evictBit, evictArg, call, pub, auth, login, upl, ver,
                client, coll, save, vid, fill, jsn>>

\* entry: results = {total, success: 0, failed: [], retried: []}; the first
\* topic starts with success = False, retry_count = 0
batch_process_with_retry(total) ==
    /\ batch.pc = "idle"
    /\ batch' = [BatchIdle EXCEPT !.pc = "while", !.total = total, !.i = 1,
                                  !.attempts = [t \in 1..total |-> <<>>]]
    /\ BatchFrame

\* while not success and retry_count <= max_retries
BatchGoesOn(b) == ~b.success /\ b.retry_count <= max_retries

\* one pass of the while loop: success = await self.add_single_topic(topic);
\* a failure counts up retry_count
BatchAttempt(ok) ==
    /\ batch.pc = "while"
    /\ BatchGoesOn(batch)
    /\ batch' = [batch EXCEPT !.attempts[batch.i] = Append(@, ok),
                              !.success = ok,
                              !.retry_count = IF ok THEN @ ELSE @ + 1]
    /\ BatchFrame

\* after the while loop: the topic is counted or recorded as failed, and the
\* for loop moves to the next topic or the method returns
BatchRecord ==
    /\ batch.pc = "while"
    /\ ~BatchGoesOn(batch)
    /\ LET b == [batch EXCEPT !.succeeded = IF batch.success THEN @ + 1 ELSE @,
                              !.failed = IF batch.success THEN @ ELSE @ \cup {batch.i}]
       IN  batch' = IF batch.i = batch.total
                    THEN [b EXCEPT !.pc = "returned"]
                    ELSE [b EXCEPT !.i = @ + 1, !.success = FALSE, !.retry_count = 0]
    /\ BatchFrame

-----------------------------------------------------------------------------
(* XHSContentFiller._perform_title_fill and _perform_content_fill: the check
   of the value read back from the field *)

\* length of the slice cleaned_content[:20]
ContentSliceLen == 20

Run(c, n) == [k \in 1..n |-> c]

\* Texts as written after clean_text_for_browser, and as read back: two runs
\* of characters, short ones and ones longer than the slice
FillTexts ==
    {Run(c, n) \o Run(d, m) : c \in {"a"}, d \in {"a", "b"}, n \in {0, 1, 20, 24},
                              m \in {0, 1, 5}}
    \cup {Run("b", n) : n \in {1, 4, 24}}

Slice(text, n) == SubSeq(text, 1, IF Len(text) < n THEN Len(text) ELSE n)

\* Python's `x in y` for strings
Contains(x, y) ==
    \E o \in 0..(Len(y) - Len(x)) : SubSeq(y, o + 1, o + Len(x)) = x

FillIdle == [kind |-> "none", written |-> <<>>, read |-> <<>>, result |-> None]

FillFrame ==
    UNCHANGED <<now, cookieFile, tasks, running_tasks, cancelled, pc, cur, driver, trace,
                swallowed, gate, evictBit, evictArg, call, pub, auth, login, upl, ver,
                client, coll, save, vid, batch, jsn>>

\* cleaned_title in current_value or len(current_value) > 0; an exception of
\* the element gives False
_perform_title_fill(cleaned_title, current_value, raises) ==
    /\ fill.kind = "none"
    /\ fill' = [kind |-> "title", written |-> cleaned_title, read |-> current_value,
                result |-> Some(IF raises THEN FALSE
                                ELSE Contains(cleaned_title, current_value)
                                       \/ Len(current_value) > 0)]
    /\ FillFrame

\* len(current_text) > 0 and (cleaned_content[:20] in current_text or
\* len(current_text) >= len(cleaned_content) * 0.8)
_perform_content_fill(cleaned_content, current_text, raises) ==
    /\ fill.kind = "none"
    /\ fill' = [kind |-> "content", written |-> cleaned_content, read |-> current_text,
                result |-> Some(IF raises THEN FALSE
                                ELSE /\ Len(current_text) > 0
                                     /\ \/ Contains(Slice(cleaned_content, ContentSliceLen),
                                                    current_text)
                                        \/ 10 * Len(current_text) >= 8 * Len(cleaned_content))]
    /\ FillFrame

-----------------------------------------------------------------------------
(* publish_from_json and preview_json_data: the image list of a JSON item *)

\* the platform's limit applied by publish_from_json
MaxImages == 9

\* content images a list can hold in the model
ContentImages == <<"n1", "n2", "n3", "n4", "n5", "n6", "n7", "n8", "n9">>

\* neirongtu: absent, one path given as a string, or a list of paths
Neirongtu(given, is_list, paths) == [given |-> given, is_list |-> is_list, paths |-> paths]

\* A field of the item: absent, the empty string, or a path
JsonItems ==
    [fengmian : {None, Some(""), Some("cover")},
     neirongtu : {Neirongtu(FALSE, FALSE, <<>>), Neirongtu(TRUE, FALSE, <<"single">>)}
                 \cup {Neirongtu(TRUE, TRUE, SubSeq(ContentImages, 1, n)) :
                          n \in {0, 1, 2, 7, 9}},
     zongjie : {None, Some("summary")},
     jiewei : {None, Some("ending")}]

\* Python's `'k' in data and data['k']` for a str value and for neirongtu
Present(field) == field # None /\ field[1] # ""

PresentList(n) == n.given /\ n.paths # <<>>

JsonImagesEndingFirst(item) ==
    (IF Present(item.fengmian) THEN <<item.fengmian[1]>> ELSE <<>>)
    \o (IF PresentList(item.neirongtu) THEN item.neirongtu.paths ELSE <<>>)
    \o (IF Present(item.jiewei) THEN <<item.jiewei[1]>> ELSE <<>>)
    \o (IF Present(item.zongjie) THEN <<item.zongjie[1]>> ELSE <<>>)

\* images = []; append fengmian; extend or append neirongtu; append zongjie;
\* append jiewei
JsonImages(item) ==
    LET a == IF Present(item.fengmian) THEN <<item.fengmian[1]>> ELSE <<>>
        b == IF PresentList(item.neirongtu)
             THEN IF item.neirongtu.is_list THEN a \o item.neirongtu.paths
                                            ELSE Append(a, item.neirongtu.paths[1])
             ELSE a
        c == IF Present(item.zongjie) THEN Append(b, item.zongjie[1]) ELSE b
    IN  IF Present(item.jiewei) THEN Append(c, item.jiewei[1]) ELSE c

JsnIdle == [op |-> "none", item |-> [fengmian |-> None,
                                      neirongtu |-> Neirongtu(FALSE, FALSE, <<>>),
                                      zongjie |-> None, jiewei |-> None],
            images |-> <<>>, total_images |-> 0]

JsnFrame ==
    UNCHANGED <<now, cookieFile, tasks, running_tasks, cancelled, pc, cur, driver, trace,
                swallowed, gate, evictBit, evictArg, call, pub, auth, login, upl, ver,
                client, coll, save, vid, batch, fill>>

\* publish_from_json up to XHSNote.async_smart_create: if len(images) > 9:
\* images = images[:9]
publish_from_json(item) ==
    /\ jsn' = [op |-> "publish", item |-> item,
               images |-> IF Len(JsonImages(item)) > MaxImages
                          THEN SubSeq(JsonImages(item), 1, MaxImages)
                          ELSE JsonImages(item),
               total_images |-> 0]
    /\ JsnFrame

\* preview_json_data for one item: item_info["total_images"] = len(images)
preview_json_data(item) ==
    /\ jsn' = [op |-> "preview", item |-> item, images |-> JsonImages(item),
               total_images |-> Len(JsonImages(item))]
    /\ JsnFrame

-----------------------------------------------------------------------------
(* SmartAuthServer.check_auth_status over the persisted CredentialSet *)

\* __init__: nothing checked, nothing cached; relogin remembers the time of the
\* last successful smart_login and the cached verdict it dropped
AuthIdle == [checks |-> 0, status |-> "unchecked", evaluated_at |-> 0,
             _cached_status |-> None, _last_check_time |-> 0, relogin |-> None]

\* cookie names a saved set can hold: the four basic names, a critical name
\* outside the basic four, and a name that is not critical
GateNames == BasicNames \cup {"customer-sso-sid", "xsecappid"}

\* an expiry is absent (session cookie) or a positive epoch timestamp
GateExpiries == {None, Some(2), Some(MaxGateTime + 1)}

\* well-formed saved sets, at most one cookie per name
GateInputs ==
    {[exists |-> FALSE, cookies |-> {}]} \cup
    {[exists |-> TRUE, cookies |-> {Cookie(n, e[n]) : n \in ns}] :
        ns \in SUBSET GateNames, e \in [GateNames -> GateExpiries]}

_is_cache_valid ==
    /\ auth._cached_status # None
    /\ now - auth._last_check_time < _cache_duration

\* check_auth_status(force_check): a cached verdict is returned as it was
\* computed; only a verdict of _validate_cookies_detailed is cached
CheckAuthStatus(force_check) ==
    /\ auth.checks < MaxChecks
    /\ IF ~force_check /\ _is_cache_valid
       THEN auth' = [auth EXCEPT !.checks = @ + 1,
                                 !.status = auth._cached_status[1],
                                 !.evaluated_at = auth._last_check_time]
       ELSE LET status == check_auth_status(cookieFile, now)
            IN  IF status = "missing"
                THEN auth' = [auth EXCEPT !.checks = @ + 1, !.status = status,
                                          !.evaluated_at = now]
                ELSE auth' = [checks |-> auth.checks + 1, status |-> status,
                              evaluated_at |-> now,
                              _cached_status |-> Some(status), _last_check_time |-> now,
                              relogin |-> auth.relogin]
    /\ UNCHANGED <<now, cookieFile, tasks, running_tasks, cancelled, pc, cur, driver, trace,
                   swallowed, gate, evictBit, evictArg, call, pub, login, upl, ver, client, coll, save, vid, batch, fill, jsn>>

\* the clock of the gate harness
GateTick ==
    /\ now < MaxGateTime
    /\ now' = now + 1
    /\ UNCHANGED <<cookieFile, tasks, running_tasks, cancelled, pc, cur, driver, trace,
                   swallowed, gate, evictBit, evictArg, call, pub, auth, login, upl, ver, client, coll, save, vid, batch, fill, jsn>>

\* the cache after the check_auth_status(force_check=True) that opens smart_login
ForcedCheck(a) ==
    LET status == check_auth_status(cookieFile, now)
    IN  IF status = "missing" THEN a
        ELSE [a EXCEPT !._cached_status = Some(status), !._last_check_time = now]

\* a smart_login whose success branch leaves the cache as it is
SmartLoginKeepsCache(login_success, saved) ==
    /\ LET a == ForcedCheck(auth)
       IN  IF login_success
           THEN /\ cookieFile' = saved
                /\ auth' = [a EXCEPT !.relogin =
                               Some([at |-> now, dropped |-> a._cached_status])]
           ELSE /\ cookieFile' = cookieFile
                /\ auth' = a
    /\ UNCHANGED <<now, tasks, running_tasks, cancelled, pc, cur, driver, trace,
                   swallowed, gate, evictBit, evictArg, call, pub, login, upl, ver, client,
                   coll, save, vid, batch, fill, jsn>>

\* smart_login(mcp_mode=True): a forced check, then save_cookies_auto; when it
\* returned True the credential file holds the new set and _cached_status is
\* cleared; when it returned False or raised, nothing else is touched
SmartLogin(login_success, saved) ==
    /\ LET a == ForcedCheck(auth)
       IN  IF login_success
           THEN /\ cookieFile' = saved
                /\ auth' = [a EXCEPT !._cached_status = None,
                                     !.relogin = Some([at |-> now,
                                                       dropped |-> a._cached_status])]
           ELSE /\ cookieFile' = cookieFile
                /\ auth' = a
    /\ UNCHANGED <<now, tasks, running_tasks, cancelled, pc, cur, driver, trace,
                   swallowed, gate, evictBit, evictArg, call, pub, login, upl, ver, client,
                   coll, save, vid, batch, fill, jsn>>

-----------------------------------------------------------------------------
(* The TaskManager API called directly, with every combination of supplied *)
(* and omitted keyword arguments                                           *)

NoCall == [op |-> "none", id |-> NoJob, status |-> None, progress |-> None,
           message |-> None, result |-> None, known |-> FALSE]

StatusArgs == {None, Some(""), Some("failed")}
ProgressArgs == {None, Some(50)}
MessageArgs == {None, Some(""), Some("m")}
ResultArgs == {None, Some(EmptyDict), Some(ErrorResult("submit_error"))}

\* TaskManager.create_task alone: no coroutine is spawned for the job
RegCreate(id) ==
    /\ id \notin DOMAIN tasks
    /\ \A k \in JobIds \ DOMAIN tasks : id <= k
    /\ tasks' = create_task(tasks, id, [media |-> "text"], now)
    /\ call' = [NoCall EXCEPT !.op = "create_task", !.id = id]
    /\ UNCHANGED <<now, cookieFile, running_tasks, cancelled, pc, cur, driver, trace,
                   swallowed, gate, evictBit, evictArg, pub, auth, login, upl, ver, client, coll, save, vid, batch, fill, jsn>>

\* TaskManager.update_task(task_id, status=, progress=, message=, result=)
RegUpdate(id, status, progress, message, result) ==
    /\ tasks' = update_task(tasks, id, status, progress, message, result, now)
    /\ call' = [op |-> "update_task", id |-> id, status |-> status, progress |-> progress,
                message |-> message, result |-> result, known |-> id \in DOMAIN tasks]
    /\ UNCHANGED <<now, cookieFile, running_tasks, cancelled, pc, cur, driver, trace,
                   swallowed, gate, evictBit, evictArg, pub, auth, login, upl, ver, client, coll, save, vid, batch, fill, jsn>>

-----------------------------------------------------------------------------

Init ==
    /\ now = 1
    /\ cookieFile \in CredentialSamples
    /\ tasks = <<>>
    /\ running_tasks = {}
    /\ cancelled = {}
    /\ pc = [j \in JobIds |-> "none"]
    /\ cur = NoJob
    /\ driver = [j \in JobIds |-> "none"]
    /\ trace = [j \in JobIds |-> <<>>]
    /\ swallowed = [j \in JobIds |-> {}]
    /\ gate = [j \in JobIds |-> "unchecked"]
    /\ evictBit = 0
    /\ evictArg = 0
    /\ call = NoCall
    /\ pub = PubIdle
    /\ auth = AuthIdle
    /\ login = LoginIdle
    /\ upl = UplIdle
    /\ ver = VerIdle
    /\ client = [j \in JobIds |-> NoClient]
    /\ coll = CollIdle
    /\ save = SaveIdle
    /\ vid = VidIdle
    /\ batch = BatchIdle
    /\ fill = FillIdle
    /\ jsn = JsnIdle

Pipeline(j) ==
    \/ Start(j) \/ Stage0(j) \/ Stage1(j) \/ Stage2(j) \/ CreateDriver(j)
    \/ Navigate(j) \/ LoadCookies(j) \/ AccessPage(j) \/ PageVerify(j)
    \/ SwitchMode(j) \/ Upload(j) \/ UploadStarted(j) \/ UploadSettled(j)
    \/ WaitUpload(j) \/ FillContent(j) \/ FillDone(j) \/ Submit(j)
    \/ SubmitDone(j) \/ Finally(j)

\* The server as built: nothing in it calls remove_old_tasks
Next ==
    \/ \E id \in JobIds, note \in Notes : SmartPublishNote(id, note)
    \/ Tick
    \/ \E j \in JobIds : Pipeline(j)

Spec == Init /\ [][Next]_vars

\* The server as built, with the event loop running whatever is ready: every
\* pipeline is a finite sequence of steps, so the loop never idles while a
\* coroutine can resume; the cookies file is absent or holds a complete set
InitLive ==
    /\ Init
    /\ check_auth_status(cookieFile, MaxTime + 1) \in {"missing", "valid"}
    /\ cookieFile.cookies = {} => ~cookieFile.exists

SpecLive == InitLive /\ [][Next]_vars /\ WF_vars(Next)

\* The server with a maintenance caller of remove_old_tasks on the same loop
NextEvict ==
    \/ \E id \in JobIds, note \in Notes : SmartPublishNote(id, note)
    \/ \E m \in MaxAges : remove_old_tasks(m)
    \/ Tick
    \/ \E j \in JobIds : Pipeline(j)

\* eviction does not read the credentials: one complete CredentialSet
InitEvict ==
    /\ Init
    /\ check_auth_status(cookieFile, MaxTime + 1) = "valid"

SpecEvict == InitEvict /\ [][NextEvict]_vars

\* Job creation with ids as the code draws them
NextIds ==
    \/ \E id \in JobIds, note \in Notes : CreateAndSpawn(id, note)
    \/ Tick

SpecIds == InitEvict /\ [][NextIds]_vars

\* The credential gate applied to every saved set
InitGate ==
    /\ now = 1
    /\ cookieFile \in GateInputs
    /\ tasks = <<>>
    /\ running_tasks = {}
    /\ cancelled = {}
    /\ pc = [j \in JobIds |-> "none"]
    /\ cur = NoJob
    /\ driver = [j \in JobIds |-> "none"]
    /\ trace = [j \in JobIds |-> <<>>]
    /\ swallowed = [j \in JobIds |-> {}]
    /\ gate = [j \in JobIds |-> "unchecked"]
    /\ evictBit = 0
    /\ evictArg = 0
    /\ call = NoCall
    /\ pub = PubIdle
    /\ auth = AuthIdle
    /\ login = LoginIdle
    /\ upl = UplIdle
    /\ ver = VerIdle
    /\ client = [j \in JobIds |-> NoClient]
    /\ coll = CollIdle
    /\ save = SaveIdle
    /\ vid = VidIdle
    /\ batch = BatchIdle
    /\ fill = FillIdle
    /\ jsn = JsnIdle

NextGate ==
    \/ \E force_check \in BOOLEAN : CheckAuthStatus(force_check)
    \/ GateTick

SpecGate == InitGate /\ [][NextGate]_vars

NamesOf(file) == {c.name : c \in file.cookies}

\* some cookie of the required subset has an expiry before time t
RequiredExpired(file, t) ==
    \E c \in file.cookies :
        c.name \in CriticalNames /\ c.expiry # None /\ c.expiry[1] < t

RequiredAbsent(file) == Cardinality(BasicNames \ NamesOf(file))

NextLogin ==
    \/ \E t \in Timeouts, url_raises \in BOOLEAN : WaitStart(t, url_raises)
    \/ \E url_raises \in BOOLEAN, dom_raises \in BOOLEAN : WaitPoll(url_raises, dom_raises)
    \/ WaitSleep
    \/ \E url_raises \in BOOLEAN : WaitSettle(url_raises)
    \/ \E p \in Pages : PageChange(p)

SpecLogin == InitEvict /\ [][NextLogin]_vars

\* The upload completion wait driven by the page
NextUpload ==
    \/ \E file_type \in FileTypes : UploadWaitStart(file_type)
    \/ \E obs \in Observations : UploadWaitPoll(obs)
    \/ UploadWaitSleep

SpecUpload == InitEvict /\ [][NextUpload]_vars

\* The topic verifiers applied to every page
NextVerify ==
    \/ \E page \in TopicPages : TopicTyped(page)
    \/ \E raises \in BOOLEAN : VerifyFiller(raises)
    \/ \E raises \in BOOLEAN : VerifyAutomation(raises)

SpecVerify == InitEvict /\ [][NextVerify]_vars

\* One data-collection run under every outcome of its steps
NextCollect ==
    \/ \E has_client, import_ok, d, c, f \in BOOLEAN :
           _run_data_collection(has_client, import_ok, d, c, f)
    \/ \E ok \in BOOLEAN : CollectCreateDriver(ok)
    \/ \E outcome \in {"loaded", "no_cookies", "raises"} : CollectLoadCookies(outcome)
    \/ \E outcome \in CollectOutcomes : CollectDashboard(outcome)
    \/ \E outcome \in CollectOutcomes : \E cancel \in BOOLEAN : CollectContent(outcome, cancel)
    \/ \E outcome \in CollectOutcomes : CollectFans(outcome)
    \/ CollectFinally

SpecCollect == InitEvict /\ [][NextCollect]_vars

\* Saves and loads of the cookies file, every step of a save able to fail
NextSave ==
    \/ \E cookies \in SaveLists : \E error \in {"none", "PermissionError"} :
           _save_cookies_to_file(cookies, error)
    \/ \E error \in {"none"} \cup SaveErrors : SaveOpen(error)
    \/ \E error \in {"none", "OSError"} : SaveDump(error)
    \/ load_cookies

SpecSave == InitEvict /\ [][NextSave]_vars

\* The video-upload wait driven by the page
NextVideo ==
    \/ VideoWaitStart
    \/ \E obs \in {"none", "success", "raises"} : VideoWaitPoll(obs)
    \/ VideoWaitSleep

\* The three polling loops, each run on its own
NextPolling ==
    \/ upl = UplIdle /\ vid = VidIdle /\ NextLogin
    \/ login = LoginIdle /\ vid = VidIdle /\ NextUpload
    \/ login = LoginIdle /\ upl = UplIdle /\ NextVideo

SpecPolling == InitEvict /\ [][NextPolling]_vars

\* The registry driven through its API
NextRegistry ==
    \/ \E id \in JobIds : RegCreate(id)
    \/ \E id \in JobIds, status \in StatusArgs, progress \in ProgressArgs,
          message \in MessageArgs, result \in ResultArgs :
            RegUpdate(id, status, progress, message, result)
    \/ Tick

SpecRegistry == InitEvict /\ [][NextRegistry]_vars

\* The registry driven through its API together with the eviction
NextRegistryEvict ==
    \/ \E id \in JobIds : RegCreate(id)
    \/ \E id \in JobIds, status \in {None, Some("failed")}, progress \in ProgressArgs :
            RegUpdate(id, status, progress, None, None)
    \/ \E m \in MaxAges : remove_old_tasks(m)
    \/ Tick

SpecRegistryEvict == InitEvict /\ [][NextRegistryEvict]_vars

\* A batch of topics under every outcome of add_single_topic
NextBatch ==
    \/ \E total \in 1..MaxBatch : batch_process_with_retry(total)
    \/ \E ok \in BOOLEAN : BatchAttempt(ok)
    \/ BatchRecord

SpecBatch == InitEvict /\ [][NextBatch]_vars

\* The two read-back checks applied to every written and read text
NextFill ==
    \/ \E w \in FillTexts, r \in FillTexts, raises \in BOOLEAN :
           _perform_title_fill(w, r, raises)
    \/ \E w \in FillTexts, r \in FillTexts, raises \in BOOLEAN :
           _perform_content_fill(w, r, raises)

SpecFill == InitEvict /\ [][NextFill]_vars

\* The JSON tools applied to every item
NextJson ==
    \/ \E item \in JsonItems : publish_from_json(item)
    \/ \E item \in JsonItems : preview_json_data(item)

SpecJson == InitEvict /\ [][NextJson]_vars

\* Login flows one after another: save_cookies_auto is synchronous, so a flow
\* starts only when the one before it has left the method
FlowOver ==
    /\ login.report # "get_cookies"
    /\ login.report = "saving" => save.pc = "returned"

NextRelogin ==
    \/ \E t \in Timeouts, url_raises \in BOOLEAN : FlowOver /\ WaitStart(t, url_raises)
    \/ \E url_raises \in BOOLEAN, dom_raises \in BOOLEAN : WaitPoll(url_raises, dom_raises)
    \/ WaitSleep
    \/ \E url_raises \in BOOLEAN : WaitSettle(url_raises)
    \/ \E p \in Pages : PageChange(p)
    \/ \E first, second \in SaveLists \cup {<<>>} : \E error \in {"none", "PermissionError"} :
           GetCookies(first, second, error)
    \/ \E error \in {"none"} \cup SaveErrors : SaveOpen(error)
    \/ \E error \in {"none", "OSError"} : SaveDump(error)

SpecRelogin == InitEvict /\ [][NextRelogin]_vars

\* The credential gate with logins in between: save_cookies_auto saves a
\* non-empty cookie list
NextSmartLogin ==
    \/ \E force_check \in BOOLEAN : CheckAuthStatus(force_check)
    \/ GateTick
    \/ \E login_success \in BOOLEAN :
           \E saved \in {f \in CredentialSamples : f.cookies # {}} :
               SmartLogin(login_success, saved)

SpecSmartLogin == InitGate /\ [][NextSmartLogin]_vars

\* One run of the component pipeline
NextPublisher ==
    \/ \E note \in PubNotes : publish_note(note)
    \/ _navigate_to_publish_page
    \/ _switch_publish_mode
    \/ PubUpload
    \/ PubFillTitle
    \/ PubFillContent
    \/ fill_topics
    \/ PubTopic
    \/ PubTopicsDone
    \/ PubSubmit
    \/ PubFinally

SpecPublisher == InitEvict /\ [][NextPublisher]_vars

-----------------------------------------------------------------------------
(* Properties of the job pipeline *)

StatusesOf(j) == SelectSeq(trace[j], LAMBDA e : e.kind = "status")

WorkDone(j, name) == \E i \in DOMAIN trace[j] : trace[j][i] = Ev("work", name)

\* the fixed stage order of the status values
StageRank(status) ==
    CASE status = "pending"                -> 0
      [] status = "validating"             -> 1
      [] status = "initializing"           -> 2
      [] status = "browser_starting"       -> 3
      [] status = "navigating"             -> 4
      [] status = "loading_cookies"        -> 5
      [] status = "accessing_publish_page" -> 6
      [] status = "switching_mode"         -> 7
      [] status = "uploading"              -> 8
      [] status = "waiting_upload"         -> 9
      [] status = "filling_content"        -> 10
      [] status = "publishing"             -> 11
      [] OTHER                             -> 12

\* C1: for every job, as long as the reply of check_task_status is not
\* terminal, the progress it reports is never lower than the progress an
\* earlier reply reported: no step of the server lowers the progress of a
\* job that is still non-terminal after the step.
C1_ProgressNonDecreasing ==
    [][\A j \in JobIds :
         (j \in DOMAIN tasks /\ j \in DOMAIN tasks' /\ ~StatusReply(tasks', j).is_completed)
            => StatusReply(tasks', j).progress >= StatusReply(tasks, j).progress]_vars

\* a poll made while the loop is idle sees a non-terminal job at progress 80
C1_Witness ==
    \E j \in DOMAIN tasks :
        /\ cur = NoJob
        /\ StatusReply(tasks, j).progress = 80
        /\ ~StatusReply(tasks, j).is_completed

\* C2: the statuses a job reports follow the fixed stage order: each report
\* names the stage of the report before it or a later stage, so no report
\* goes back and a stage that was left is never reported again.
C2_StageOrder ==
    \A j \in JobIds :
        LET st == StatusesOf(j) IN
        \A a \in 1..(Len(st) - 1) :
            /\ StageRank(st[a].name) <= StageRank(st[a + 1].name)
            /\ StageRank(st[a].name) = StageRank(st[a + 1].name) => st[a].name = st[a + 1].name

\* a job with media went through every stage and completed
C2_Witness ==
    \E j \in DOMAIN tasks :
        /\ tasks[j].status = "completed"
        /\ has_videos(tasks[j].note)
        /\ Len(StatusesOf(j)) = 13

\* C3: once a job is completed or failed, no later step changes its status,
\* progress, message or result, reports a status for it or does stage work
\* for it.
C3_TerminalAbsorbing ==
    [][\A j \in JobIds :
         (j \in DOMAIN tasks /\ tasks[j].status \in Terminal)
            => /\ j \in DOMAIN tasks' => tasks'[j] = tasks[j]
               /\ trace'[j] = trace[j]
               /\ driver'[j] = driver[j]]_vars

\* a job failed in a stage and its coroutine has ended
C3_Witness ==
    \E j \in DOMAIN tasks :
        /\ tasks[j].status = "failed"
        /\ tasks[j].message = "page_access_error"
        /\ pc[j] = "ended"

AuthErrorTypes == {"auth_required", "validation_error"}

\* C4 as claimed: a job that runs while the cookie file is missing or holds
\* no cookies never reports uploading and ends failed with an authentication
\* error type.
C4_NoCredentialsFailsAuth ==
    \A j \in DOMAIN tasks :
        (~cookieFile.exists \/ cookieFile.cookies = {})
            => /\ tasks[j].status # "uploading"
               /\ pc[j] = "ended" =>
                     /\ tasks[j].status = "failed"
                     /\ tasks[j].result # None
                     /\ tasks[j].result[1].error_type \in AuthErrorTypes

\* the job failed at the stage-0 credential check
FailedValidateAuth(j) ==
    \E i \in DOMAIN trace[j] :
        /\ trace[j][i] = Ev("work", "check_cookies_file")
        /\ i + 1 \in DOMAIN trace[j]
        /\ trace[j][i + 1] = Ev("status", "failed")

\* C5: the stage-0 credential check has finished (and passed) before the
\* job's browser is created, and a job that failed that check has no browser.
C5_ValidateBeforeSession ==
    \A j \in JobIds :
        /\ \A i \in DOMAIN trace[j] :
              trace[j][i] = Ev("work", "create_driver")
                 => \E k \in 1..(i - 1) :
                       /\ trace[j][k] = Ev("work", "check_cookies_file")
                       /\ k + 1 < i
                       /\ trace[j][k + 1] = Ev("status", "initializing")
        /\ driver[j] = "open" => WorkDone(j, "create_driver")
        /\ FailedValidateAuth(j) => driver[j] = "none" /\ ~WorkDone(j, "create_driver")

\* a job passed the check and holds an open browser
C5_Witness ==
    \E j \in JobIds : driver[j] = "open" /\ gate[j] = "valid"

\* C6 as claimed: a job whose CredentialSet the gate judges expired or
\* incomplete when stage 0 runs stops at validate-auth and never creates a
\* browser session.
C6_GateVerdictEnforced ==
    \A j \in DOMAIN tasks :
        gate[j] \in {"expired", "invalid"}
            => /\ tasks[j].status \in {"validating", "failed"}
               /\ driver[j] = "none"

\* C7 as claimed: a job whose upload operation failed never enters
\* fill-content or submit.
C7_UploadFailureIsFatal ==
    \A j \in DOMAIN tasks :
        "upload" \in swallowed[j]
            => tasks[j].status \notin {"filling_content", "publishing", "completed"}

\* C8: whatever happens to the topics (one fails, all fail, the list fails
\* validation, the editor is not found), leaving the topic step leads to the
\* submit step with no error raised.
C8_TopicFailureNonFatal ==
    [][(pub.pc \in {"topics", "topic"} /\ pub'.pc \notin {"topics", "topic"})
          => /\ pub'.pc = "submit"
             /\ pub'.error = None
             /\ pub'.fill_topics # None]_vars

\* every topic of a two-topic note failed, fill_topics returned False, and
\* the run went on to submit and returned a successful result
C8_Witness ==
    /\ pub.pc = "returned"
    /\ Len(pub.note.topics) = 2
    /\ pub.failed = {1, 2}
    /\ pub.fill_topics = Some(FALSE)
    /\ pub.result = Some(TRUE)
    /\ pub.error = None

\* the keyword arguments of the last update_task call that were omitted
Omitted(field) == call[field] = None

\* C9: update_task leaves every field whose argument is omitted as it was (an
\* update that omits status leaves the end timestamp too), so an update that
\* supplies progress alone changes nothing but progress; no update changes
\* another job or the set of jobs.
C9_PartialUpdate ==
    [][(call'.op = "update_task" /\ now' = now) =>
          /\ DOMAIN tasks' = DOMAIN tasks
          /\ \A k \in DOMAIN tasks : k # call'.id => tasks'[k] = tasks[k]
          /\ call'.id \in DOMAIN tasks =>
                LET old == tasks[call'.id]
                    new == tasks'[call'.id] IN
                /\ call'.status = None   => new.status = old.status /\ new.end_time = old.end_time
                /\ call'.progress = None => new.progress = old.progress
                /\ call'.message = None  => new.message = old.message
                /\ call'.result = None   => new.result = old.result
                /\ new.task_id = old.task_id /\ new.note = old.note
                /\ new.start_time = old.start_time]_vars

\* the last call updated progress alone, at time 2, on a job that earlier
\* updates had given a status, a message, a result and the end timestamp 1,
\* while another job exists
C9_Witness ==
    /\ call.op = "update_task"
    /\ Omitted("status") /\ Omitted("message") /\ Omitted("result")
    /\ call.progress = Some(50)
    /\ call.id \in DOMAIN tasks
    /\ tasks[call.id].progress = 50
    /\ tasks[call.id].status = "failed"
    /\ tasks[call.id].message = "m"
    /\ tasks[call.id].result # None
    /\ tasks[call.id].end_time = Some(1)
    /\ now = 2
    /\ DOMAIN tasks # {call.id}

\* a job in the registry whose status is completed or failed
IsTerminal(j) == j \in DOMAIN tasks /\ tasks[j].status \in Terminal

\* C11 as claimed: every job that has reached completed or failed is
\* eventually removed from the registry by the running server.
C11_TerminalEventuallyEvicted ==
    \A j \in JobIds : IsTerminal(j) ~> (j \notin DOMAIN tasks)

\* C12: every job that was created and spawned eventually is completed or
\* failed, whatever the outcomes of its stage operations.
C12_EveryJobTerminates ==
    \A j \in JobIds : (pc[j] = "spawned") ~> IsTerminal(j)

\* a job whose upload failure was ignored went on and ended, while a second
\* job ended too
C12_Witness ==
    \E j, k \in JobIds :
        /\ j # k
        /\ pc[j] = "ended" /\ IsTerminal(j) /\ "upload" \in swallowed[j]
        /\ pc[k] = "ended" /\ IsTerminal(k)

\* the pipeline executions spawned for job id j so far
Spawns(j) == SelectSeq(trace[j], LAMBDA e : e.kind = "spawn")

\* C13 as claimed: for every job id at most one pipeline execution is ever
\* spawned, so two executions never exist for the same job.
C13_OneExecutionPerJob ==
    \A j \in JobIds : Len(Spawns(j)) <= 1

\* C14 as claimed: a create returns an id that no earlier create returned,
\* and leaves the record of every existing job as it was.
C14_FreshIdNoOverwrite ==
    [][\A i \in JobIds :
         Spawns(i)' # Spawns(i)
            => /\ Spawns(i) = <<>>
               /\ \A k \in DOMAIN tasks : k \in DOMAIN tasks' /\ tasks'[k] = tasks[k]]_vars

NotFoundKeys == {"success", "message"}

\* C15: for an id that was never created or has been evicted both queries
\* answer not-found; for a job that is not completed/failed the result query
\* answers not-ready (no payload) and the status query says not terminal; for
\* a completed or failed job the result query carries the success flag
\* (true exactly for completed) and the job's result payload, and the status
\* query says terminal.
C15_QueryReplies ==
    \A id \in JobIds :
        LET r == ResultReply(tasks, id)
            st == StatusReply(tasks, id) IN
        /\ id \notin DOMAIN tasks
              => r.keys = NotFoundKeys /\ ~r.success /\ ~st.success
        /\ (id \in DOMAIN tasks /\ tasks[id].status \notin Terminal)
              => /\ "current_status" \in r.keys /\ "publish_result" \notin r.keys
                 /\ ~r.success /\ r.status = tasks[id].status
                 /\ st.success /\ ~st.is_completed
        /\ (id \in DOMAIN tasks /\ tasks[id].status \in Terminal)
              => /\ "publish_result" \in r.keys /\ "current_status" \notin r.keys
                 /\ r.success = (tasks[id].status = "completed")
                 /\ r.publish_result = tasks[id].result /\ r.publish_result # None
                 /\ r.publish_result[1].success = r.success
                 /\ st.success /\ st.is_completed

\* one job has been evicted, the other has failed and its result is served
C15_Witness ==
    \E j, k \in JobIds :
        /\ pc[j] = "ended" /\ ResultReply(tasks, j).keys = NotFoundKeys
        /\ k \in DOMAIN tasks
        /\ ~ResultReply(tasks, k).success
        /\ "publish_result" \in ResultReply(tasks, k).keys
        /\ ResultReply(tasks, k).publish_result[1].error_type = "content_fill_error"

\* C10: a call of remove_old_tasks removes exactly the jobs that are terminal
\* and whose end timestamp is more than max_age_seconds old, leaves every
\* other job as it was, cancels no coroutine, and a removed job stays absent
\* from get_task.
C10_EvictOnlyOldTerminal ==
    [][/\ evictBit' # evictBit =>
            /\ DOMAIN tasks' = DOMAIN tasks \
                  {j \in DOMAIN tasks : /\ tasks[j].status \in Terminal
                                        /\ tasks[j].end_time # None
                                        /\ now - tasks[j].end_time[1] > evictArg'}
            /\ \A j \in DOMAIN tasks' : tasks'[j] = tasks[j]
            /\ cancelled' = {}
            /\ pc' = pc
       /\ \A j \in JobIds :
            (pc[j] # "none" /\ get_task(tasks, j) = None) => get_task(tasks', j) = None]_vars

\* an old terminal job has been removed while another job is still running
C10_Witness ==
    \E j, k \in JobIds :
        /\ pc[j] = "ended" /\ get_task(tasks, j) = None
        /\ k \in DOMAIN tasks /\ tasks[k].status = "filling_content"
        /\ now - tasks[k].start_time[1] > evictArg
        /\ evictBit = 1

-----------------------------------------------------------------------------
(* The login detector *)

\* return statements taken because sampling the page raised
ProbeExits == {"initial_url_error", "probe_error", "creator_check_error"}

\* C17: a run in which a poll classified the page as not a login form and as
\* the authenticated target area ends with authenticated, in that poll,
\* whatever cookies are readable then.
C17_DetectionEndsAuthenticated ==
    (login.pc = "returned" /\ login.detected) => login.exit = "authenticated"

\* C18: a run whose page never left the login state (and that did not see
\* three consecutive probe failures) ends with timed-out, at an elapsed time
\* between the ceiling and the ceiling plus one poll interval.
C18_NeverLeftTimesOut ==
    (login.pc = "returned" /\ login.never_left /\ login.fails < 3) =>
        /\ login.exit = "timed_out"
        /\ login.timeout <= login.elapsed
        /\ login.elapsed <= login.timeout + check_interval

\* C19: the detector ends because sampling the page raised only when three
\* consecutive polls have failed; after one or two it is still polling.
C19_ErrorOnlyAfterThreeFailures ==
    login.exit \in ProbeExits => login.fails >= 3

-----------------------------------------------------------------------------
(* The upload completion wait *)

\* C21: a wait that never observed a success or an error marker returns
\* success, an image wait at the image ceiling and a video wait at the longer
\* video ceiling, and neither before its own ceiling.
C21_OptimisticAtOwnCeiling ==
    (upl.pc = "returned" /\ ~upl.seen) =>
        /\ upl.result = Some(TRUE)
        /\ upl.waited_time >= max_wait_time(upl.file_type)
        /\ upl.file_type = "video" => upl.waited_time > FILE_UPLOAD_TIME

-----------------------------------------------------------------------------
(* Topic verification *)

\* the page holds a mention node of the topic, or the topic name followed by
\* the tag marker in the body text
Converted(page) == page.mention = "this" \/ page.editor_text = "tagged"

\* C22: a topic is counted as verified only if the page holds a mention node
\* referencing it or its name followed by the tag marker; a topic for which
\* neither appears is recorded as unverified.
C22_VerifiedOnlyIfConverted ==
    /\ ver.filler = Some(TRUE) => Converted(ver.page)
    /\ ver.automation = Some(TRUE) => Converted(ver.page)

-----------------------------------------------------------------------------
(* Progress over a job's whole lifetime *)

\* C23 as stated: no step lowers the progress of a registered job.
C23_ProgressNeverDecreases ==
    [][\A j \in JobIds :
         (j \in DOMAIN tasks /\ j \in DOMAIN tasks')
            => tasks'[j].progress >= tasks[j].progress]_vars

\* C23 amended: from create until eviction, the only step that lowers a
\* job's progress is the report of failure, which sets status failed and
\* progress 0; every other step leaves the progress or raises it.
C23_ProgressDropsOnlyOnFailure ==
    [][\A j \in JobIds :
         (j \in DOMAIN tasks /\ j \in DOMAIN tasks' /\ tasks'[j].progress < tasks[j].progress)
            => /\ tasks[j].status \notin Terminal
               /\ tasks'[j].status = "failed"
               /\ tasks'[j].progress = 0]_vars

\* a job that had reported the upload stage has failed and shows progress 0
C23_Witness ==
    \E j \in DOMAIN tasks :
        /\ tasks[j].status = "failed"
        /\ tasks[j].progress = 0
        /\ \E i \in DOMAIN trace[j] : trace[j][i] = Ev("status", "uploading")

-----------------------------------------------------------------------------
(* Status reports and the work of a stage *)

\* the stage a piece of work belongs to, by the status that announces it
StageOfWork(name) ==
    CASE name = "check_cookies_file"         -> "validating"
      [] name = "XHSClient"                  -> "initializing"
      [] name = "create_driver"              -> "browser_starting"
      [] name = "navigate_to_creator_center" -> "navigating"
      [] name = "load_cookies"               -> "loading_cookies"
      [] name \in {"get_publish_page", "check_url"} -> "accessing_publish_page"
      [] name = "switch_publish_mode"        -> "switching_mode"
      [] name = "send_files"                 -> "uploading"
      [] name \in {"client_wait_upload", "pipeline_wait_upload"} -> "waiting_upload"
      [] name \in {"fill_title", "fill_content"} -> "filling_content"
      [] OTHER                               -> "publishing"

\* C24: whenever work of a stage has been done for a job, the status of that
\* stage was reported to the registry before it; in particular no waiting for
\* the upload happens before waiting_upload is reported.
C24_StatusBeforeWork ==
    \A j \in JobIds : \A i \in DOMAIN trace[j] :
        trace[j][i].kind = "work" =>
            \E k \in 1..(i - 1) : trace[j][k] = Ev("status", StageOfWork(trace[j][i].name))

-----------------------------------------------------------------------------
(* The result of a failed job *)

\* C25: every job in status failed carries a result holding a non-empty
\* error type besides its message.
C25_FailedCarriesErrorType ==
    \A j \in DOMAIN tasks :
        tasks[j].status = "failed" =>
            /\ tasks[j].result # None
            /\ "error_type" \in tasks[j].result[1].keys
            /\ tasks[j].result[1].error_type \notin {"", "null"}
            /\ TruthyStr(Some(tasks[j].message))

-----------------------------------------------------------------------------
(* Browser sessions of concurrent jobs *)

\* C26: two jobs never hold the same client instance, so the session a job's
\* stages navigate, type into or close is never the one another job created;
\* a job whose session is open holds an instance of its own.
C26_OwnSessionPerJob ==
    \A j \in JobIds :
        /\ driver[j] = "open" => client[j] \notin {NoClient, ServerClient}
        /\ \A k \in JobIds \ {j} : client[j] # NoClient => client[j] # client[k]

\* two jobs are in flight with their sessions open at the same time
C26_Witness ==
    \E j \in JobIds : \E k \in JobIds \ {j} :
        /\ driver[j] = "open" /\ driver[k] = "open"
        /\ pc[j] \in YieldLabels /\ pc[k] \in YieldLabels

-----------------------------------------------------------------------------
(* C27: waits and the event loop *)

\* Positions from which the coroutine's next step sleeps: the awaited
\* asyncio.sleep calls of the pipeline, and the time.sleep(2) calls inside
\* navigate_to_creator_center and browser_manager.load_cookies
WaitLabels == (YieldLabels \ {"spawned"}) \cup {"navigate", "load_cookies"}

\* C27: every wait is a yield point: a job at a wait does not hold the event
\* loop, so the other jobs' pipelines and the status queries, which need the
\* loop (cur = NoJob), can take their steps before the wait ends.
C27_WaitsYield ==
    \A j \in JobIds : pc[j] \in WaitLabels => cur # j

-----------------------------------------------------------------------------
(* Release of the browser session *)

\* C28: an operation that acquires a browser session for its own duration has
\* released it when it has ended, on every exit path: after a data-collection
\* run has returned, the session it created is not open.
C28_SessionReleasedOnExit ==
    coll.pc = "returned" => coll.driver # "open"

-----------------------------------------------------------------------------
(* Persisting the CredentialSet *)

\* C29: a save is all-or-nothing: when a save attempt has ended, successfully
\* or with an error, the cookies file holds the complete new set or is what it
\* was before the attempt.
C29_SaveAllOrNothing ==
    save.pc = "returned" =>
        save.file \in {save.previous, FileOf(save.cookies, TRUE)}

-----------------------------------------------------------------------------
(* Termination of the polling loops *)

\* the time a loop has spent, its ceiling and its poll interval
LoopClocks ==
    { [elapsed |-> login.elapsed, ceiling |-> login.timeout,
       interval |-> check_interval],
      [elapsed |-> upl.waited_time,
       ceiling |-> IF upl.file_type = "video" THEN VIDEO_PROCESSING_TIME
                                              ELSE FILE_UPLOAD_TIME,
       interval |-> upload_check_interval(upl.file_type)],
      [elapsed |-> vid.elapsed_time, ceiling |-> video_max_wait_time,
       interval |-> video_check_interval] }

\* a pass of a loop that goes round again has slept: its clock has advanced
Advanced ==
    /\ (login.pc = "sleep" /\ login'.pc = "loop") => login'.elapsed > login.elapsed
    /\ (upl.pc = "sleep" /\ upl'.pc = "loop") => upl'.waited_time > upl.waited_time
    /\ (vid.pc = "sleep" /\ vid'.pc = "loop") => vid'.elapsed_time > vid.elapsed_time

\* the step of a loop at its head past the ceiling is its return
ReturnsPastCeiling ==
    /\ (login.pc = "loop" /\ login' # login /\ ~(login.elapsed < login.timeout))
          => login'.pc = "returned"
    /\ (upl.pc = "loop" /\ upl' # upl /\ ~(upl.waited_time < max_wait_time(upl.file_type)))
          => upl'.pc = "returned"
    /\ (vid.pc = "loop" /\ vid' # vid /\ ~(vid.elapsed_time < video_max_wait_time))
          => vid'.pc = "returned"

\* C30: every polling loop terminates whatever the page does and however often
\* its probes raise: the time a loop has spent never exceeds its ceiling plus
\* one poll interval, every pass that goes round again advances that time, and
\* past the ceiling the loop returns.
C30_PollingLoopsTerminate ==
    /\ [](\A c \in LoopClocks : c.elapsed <= c.ceiling + c.interval)
    /\ [][Advanced /\ ReturnsPastCeiling]_vars

\* the video wait has returned at its ceiling after every probe raised
C30_Witness ==
    /\ vid.pc = "returned" /\ vid.always_raised /\ ~vid.success_found
    /\ vid.elapsed_time >= video_max_wait_time

-----------------------------------------------------------------------------
(* Updates addressed to an unknown id *)

\* C31: update_task on an id that is not in the registry, never created or
\* already evicted, changes nothing: no job is created or modified.
C31_UnknownIdNoOp ==
    [][(call'.op = "update_task" /\ call' # call /\ call'.id \notin DOMAIN tasks)
          => tasks' = tasks /\ running_tasks' = running_tasks]_vars

\* the last call was an update, supplying a terminal status, of job 1 after
\* job 1 had been created and evicted, while job 2 is registered; job 1 is
\* still absent
C31_Witness ==
    /\ call.op = "update_task" /\ ~call.known /\ call.status = Some("failed")
    /\ call.id = 1 /\ DOMAIN tasks = {2}

-----------------------------------------------------------------------------
(* Attempts per topic *)

\* the topics of the batch whose while loop has ended
BatchDone == {t \in 1..batch.total : t < batch.i \/ batch.pc = "returned"}

AllFailed(a) == \A k \in DOMAIN a : ~a[k]

\* C32: each topic gets at most N attempts, N the configured constant (2): a
\* topic is attempted again only after a failed attempt, never after a
\* success, and is recorded as failed exactly when N attempts have all failed.
C32_AtMostNAttempts ==
    \A t \in DOMAIN batch.attempts :
        LET a == batch.attempts[t] IN
        /\ Len(a) <= max_retries
        /\ \A k \in DOMAIN a : k < Len(a) => ~a[k]
        /\ t \in BatchDone => (t \in batch.failed <=> (Len(a) = max_retries /\ AllFailed(a)))

-----------------------------------------------------------------------------
(* The read-back check of a fill *)

\* the read value equals or begins with the written text, or is at least 80%
\* as long
ReadBackVerified(written, read) ==
    \/ (Len(read) >= Len(written) /\ SubSeq(read, 1, Len(written)) = written)
    \/ 10 * Len(read) >= 8 * Len(written)

\* C33: fill_title and fill_content report success only if the value read
\* back equals or begins with the written text or is at least 80% as long as
\* it; for any other read-back value they report failure.
C33_SuccessOnlyIfReadBackVerified ==
    fill.kind # "none" =>
        (fill.result = Some(TRUE) => ReadBackVerified(fill.written, fill.read))

-----------------------------------------------------------------------------
(* Execution handles and the registry *)

\* C34: whenever the event loop is free, every registered execution handle
\* belongs to a job that is in the registry and not terminal; a pipeline that
\* has ended has no handle registered; an evicted id has no handle registered.
C34_HandlesConsistent ==
    cur = NoJob =>
        /\ \A j \in running_tasks : j \in DOMAIN tasks /\ tasks[j].status \notin Terminal
        /\ \A j \in JobIds : pc[j] = "ended" => j \notin running_tasks
        /\ \A j \in JobIds : (pc[j] # "none" /\ j \notin DOMAIN tasks) => j \notin running_tasks

\* one job has ended and been evicted while the other, suspended in an await,
\* still has its handle registered
C34_Witness ==
    \E j \in JobIds : \E k \in JobIds \ {j} :
        /\ cur = NoJob
        /\ pc[j] = "ended" /\ j \notin DOMAIN tasks /\ j \notin running_tasks
        /\ pc[k] \in YieldLabels \ {"spawned"} /\ k \in running_tasks

-----------------------------------------------------------------------------
(* The image list of a JSON item *)

Opt(field) == IF field = None \/ field[1] = "" THEN <<>> ELSE <<field[1]>>

\* cover, content images in their order, summary, ending
ExpectedImages(item) ==
    Opt(item.fengmian)
    \o (IF item.neirongtu.given THEN item.neirongtu.paths ELSE <<>>)
    \o Opt(item.zongjie) \o Opt(item.jiewei)

\* C35: the image list of a JSON item is the cover if present, the content
\* images in their order, the summary if present and the ending if present;
\* preview reports total_images as that list's length, and publishing keeps
\* exactly the first 9 entries of a longer list.
C35_ImageListOrder ==
    LET e == ExpectedImages(jsn.item) IN
    /\ jsn.op = "preview" => jsn.images = e /\ jsn.total_images = Len(e)
    /\ jsn.op = "publish" =>
          jsn.images = IF Len(e) > 9 THEN SubSeq(e, 1, 9) ELSE e

\* an item with cover, nine content images, summary and ending was published:
\* twelve images cut to the cover and the first eight content images
C35_Witness ==
    /\ jsn.op = "publish"
    /\ Len(ExpectedImages(jsn.item)) = 12
    /\ Len(jsn.images) = 9 /\ jsn.images[1] = "cover" /\ jsn.images[9] = "n8"

-----------------------------------------------------------------------------
(* End timestamp, result and status of a job *)

\* C36: at every state of a job its end timestamp is set if and only if its
\* status is terminal, a result is present if and only if its status is
\* terminal, and a terminal job's result has success true exactly when the
\* status is completed.
C36_TerminalFieldsAgree ==
    \A j \in DOMAIN tasks :
        LET task == tasks[j] IN
        /\ task.end_time # None <=> task.status \in Terminal
        /\ task.result # None <=> task.status \in Terminal
        /\ task.status \in Terminal =>
              (task.result # None /\ task.result[1].success <=> task.status = "completed")

\* one job has completed and the other has failed, both with their results,
\* and both pipelines have ended
C36_Witness ==
    \E j \in DOMAIN tasks : \E k \in DOMAIN tasks :
        /\ tasks[j].status = "completed" /\ tasks[j].result # None
        /\ tasks[j].result[1].success /\ tasks[j].end_time # None
        /\ tasks[k].status = "failed" /\ tasks[k].result # None
        /\ ~tasks[k].result[1].success /\ tasks[k].end_time # None
        /\ pc[j] = "ended" /\ pc[k] = "ended"

-----------------------------------------------------------------------------
(* The browser session of a finished job *)

-----------------------------------------------------------------------------
(* The persisted credentials across login flows *)

C38_WitnessNoCookies ==
    /\ save.file # None
    /\ save.file[1].complete
    /\ Len(login.history) = 2
    /\ login.report = "AuthenticationError: no cookies"

-----------------------------------------------------------------------------
(* The verdict cache across a login *)

\* C39: every check_auth_status returns the verdict of the credential set that
\* is saved at the time of the call, computed at most one cache window before
\* the call and not before the last successful smart_login; so the first check
\* after a successful login recomputes even with force_check false.
C39_NoVerdictFromBeforeLogin ==
    [][auth'.checks = auth.checks + 1 =>
          /\ auth'.status = check_auth_status(cookieFile, auth'.evaluated_at)
          /\ now - auth'.evaluated_at < _cache_duration
          /\ auth.relogin # None => /\ auth'.evaluated_at >= auth.relogin[1].at
                                    /\ auth._cached_status = None => auth'.evaluated_at = now]_vars

\* a login dropped a cached verdict expired and the check after it found the
\* new set valid
C39_Witness ==
    /\ auth.relogin # None
    /\ auth.relogin[1].dropped = Some("expired")
    /\ auth.checks = MaxChecks
    /\ auth.status = "valid"
    /\ auth._cached_status = Some("valid")

-----------------------------------------------------------------------------
(* The two credential validators *)

\* C40: for a non-empty saved set, the verdict that check_auth_status has just
\* computed with _validate_cookies_detailed is valid exactly when
\* CookieManager.validate_cookies returns True for the same set at that time.
C40_ValidatorsAgree ==
    (/\ auth.checks > 0
     /\ auth.evaluated_at = now
     /\ cookieFile.exists
     /\ cookieFile.cookies # {})
        => (auth.status = "valid" <=> validate_cookies(cookieFile, now))

====
